---------------------------- MODULE Spec2Model ----------------------------
(***************************************************************************)
(* Webhook relay v4.5 (src/webhook_relay_cloud.py): the dispatch engine of *)
(* a BossGroup (relay_message, round-robin cursor, fixed pass, schedule    *)
(* gating), the admin operations that mutate a group, and the manager's    *)
(* debounced snapshot writer (_schedule_save / _save_config_sync).         *)
(*                                                                         *)
(* Every request runs on its own thread.  A thread is modelled by its      *)
(* position (pc) in the handler it runs plus the handler's locals.  Code   *)
(* that runs inside `with self.lock` is atomic only with respect to other  *)
(* code that takes the same lock; reads and writes of shared data outside  *)
(* a lock (`self.stats[...] += n`, set_webhook_schedule) are separate      *)
(* steps, so that every interleaving Python threads allow is a behaviour.  *)
(* Time labels ("HH:MM") and dates are small integers: the code compares   *)
(* them as zero-padded strings, which orders them as the numbers do.       *)
(***************************************************************************)
EXTENDS Integers, Sequences, FiniteSets, TLC

VARIABLES
    groups,      \* WebhookRelayManager.groups: group id -> BossGroup
    threads,     \* thread id -> position and locals of the handler it runs
    now,         \* get_local_time(): [date, time]
    creds,       \* manager.feishu_app_id / feishu_app_secret
    save_timer,  \* manager._save_timer: the thread of the armed Timer, or NoThread
    files,       \* directory: file name -> inode number (0: no such file)
    inodes,      \* inode number -> content, a sequence of written pieces
    alive,       \* FALSE once the process has crashed
    sender_log,  \* the calls the Sender has received, oldest first
    quota,       \* what the environment may still do (requests, failures)
    clock,       \* time.time(), in seconds since the process was first started
    store_log,   \* the save requests and the snapshot writes, oldest first
    feishu,      \* feishu_uploader and the globals FEISHU_APP_ID / _SECRET
    net_log      \* the calls the feishu open platform has received

vars == <<groups, threads, now, creds, save_timer, files, inodes, alive,
          sender_log, quota, clock, store_log, feishu, net_log>>

dispatchVars == <<groups, threads, sender_log, quota>>
storeVars == <<creds, save_timer, files, inodes, alive>>
timeVars == <<clock, store_log>>
feishuVars == <<feishu, net_log>>

-----------------------------------------------------------------------------
(* Bounds of the model *)

\* requests a run may start in the multi-dispatch specifications
MaxDispatch == 4
\* Sender calls that may fail (return false or raise) in one run
MaxFail == 1
\* largest persisted current_index a group starts with
MaxCursor == 3
\* worker threads of the concurrent specifications
NumWorkers == 2
\* admin requests a run may start
MaxAdmin == 2
\* pieces in which the text of a snapshot reaches the file
FileParts == 2
\* the last second of a run in the specifications in which time passes
MaxClock == 4
\* the last minute of a run in the specification of the uploader
MaxMinutes == 2
\* messages with an image a run may bring
MaxUpload == 2

(* Program constants *)

\* deque(maxlen=50)
HistoryMaxLen == 50

\* threading.Timer(2.0, ...): the delay of a scheduled save, in seconds
Debounce == 2

\* expire_time - 60: the margin of the token cache, in seconds
Margin == 60

MODE_SYNC == "sync"
MODE_ROUND_ROBIN == "round_robin"

\* the credentials the program starts with: the environment's, or the
\* defaults of the source
DefaultCredentials == [app_id |-> "id0", app_secret |-> "secret0"]

\* no token: None
NoToken == "none"

\* FeishuImageUploader.__init__, and the module's globals
FeishuImageUploader ==
    [upload_cache |-> <<>>,
     token_cache |-> [token |-> NoToken, expire_time |-> 0],
     app_id |-> "", app_secret |-> "",
     FEISHU_APP_ID |-> DefaultCredentials.app_id,
     FEISHU_APP_SECRET |-> DefaultCredentials.app_secret]

NoWebhook == "none"
NoThread == 0
NoGroup == "nogroup"

WebhookIds == <<"w1", "w2", "w3">>
Workers == 1 .. NumWorkers

-----------------------------------------------------------------------------
(* Sequence helpers *)

Range(s) == {s[i] : i \in 1 .. Len(s)}

\* a deque without maxlen
AppendLeft_Unbounded(h, e) == <<e>> \o h

\* deque.appendleft with maxlen: the newest entry first, the oldest dropped
AppendLeft(h, e) ==
    LET all == <<e>> \o h
    IN IF Len(all) > HistoryMaxLen THEN SubSeq(all, 1, HistoryMaxLen) ELSE all

-----------------------------------------------------------------------------
(* WebhookItem *)

\* WebhookItem.__init__
WebhookItem(id, type, enabled, is_fixed, schedule_mode, schedules) ==
    [id |-> id, name |-> id, url |-> id, type |-> type,
     enabled |-> enabled, is_fixed |-> is_fixed,
     schedule_mode |-> schedule_mode, schedules |-> schedules,
     stats |-> [sent |-> 0, failed |-> 0],
     created_at |-> [date |-> 0, time |-> 0]]

\* an is_in_schedule that treats every window as one that ends after it starts
WindowCovers_NoWrap(s, t) == s.start_time <= t /\ t <= s.end_time

\* one schedule entry covers the clock `t` of its own date
WindowCovers(s, t) ==
    IF s.start_time <= s.end_time
    THEN s.start_time <= t /\ t <= s.end_time
    ELSE t >= s.start_time \/ t <= s.end_time

\* WebhookItem.is_in_schedule at time `at`
is_in_schedule(wh, at) ==
    IF wh.schedule_mode = "off" THEN TRUE
    ELSE IF wh.schedules = <<>> THEN FALSE
    ELSE \E i \in 1 .. Len(wh.schedules) :
            /\ wh.schedules[i].date = at.date
            /\ WindowCovers(wh.schedules[i], at.time)

-----------------------------------------------------------------------------
(* BossGroup *)

\* BossGroup.__init__ followed by the fields a load or the seed sets
BossGroup(webhooks, send_mode, current_index) ==
    [display_name |-> "boss", webhooks |-> webhooks, send_mode |-> send_mode,
     current_index |-> current_index, lock |-> NoThread,
     stats |-> [received |-> 0, total_sent |-> 0, total_failed |-> 0],
     history |-> <<>>]

\* the webhook of group record g with this id
WebhookOf(g, id) == CHOOSE w \in Range(g.webhooks) : w.id = id

\* a get_enabled_webhooks that forgets to leave the fixed webhooks out
get_enabled_webhooks_KeepsFixed(g, exclude_fixed) ==
    SelectSeq(g.webhooks, LAMBDA w : w.enabled)

\* a get_enabled_webhooks that forgets the enabled flag
get_enabled_webhooks_AnyState(g, exclude_fixed) ==
    IF exclude_fixed THEN SelectSeq(g.webhooks, LAMBDA w : ~w.is_fixed)
    ELSE g.webhooks

\* BossGroup.get_enabled_webhooks
get_enabled_webhooks(g, exclude_fixed) ==
    LET en == SelectSeq(g.webhooks, LAMBDA w : w.enabled)
    IN IF exclude_fixed THEN SelectSeq(en, LAMBDA w : ~w.is_fixed) ELSE en

\* a get_fixed_webhooks that forgets the enabled flag
get_fixed_webhooks_AnyState(g) ==
    SelectSeq(g.webhooks, LAMBDA w : w.is_fixed)

\* BossGroup.get_fixed_webhooks
get_fixed_webhooks(g) ==
    SelectSeq(g.webhooks, LAMBDA w : w.is_fixed /\ w.enabled)

\* a position that is kept inside the list without the modulo
RRPosition_Clamped(cur, total) == IF cur < total THEN cur ELSE total - 1

\* the position the round-robin loop reads: current_index % total
RRPosition(cur, total) == cur % total

\* an advance that forgets the modulo
RRAdvance_NoWrap(pos, total) == pos + 1

\* an advance that does not move
RRAdvance_Stuck(pos, total) == pos % total

\* the position the round-robin loop leaves: (current_index + 1) % total
RRAdvance(pos, total) == (pos + 1) % total

RECURSIVE RRWalk(_, _, _, _, _)
\* the loop of get_next_webhook_round_robin: n iterations are left
RRWalk(enabled, cur, n, skipped, at) ==
    IF n = 0
    THEN [webhook |-> NoWebhook, skipped |-> skipped, current_index |-> cur]
    ELSE LET total == Len(enabled)
             pos == RRPosition(cur, total)
             candidate == enabled[pos + 1]
             nxt == RRAdvance(pos, total)
         IN IF is_in_schedule(candidate, at)
            THEN [webhook |-> candidate.id, skipped |-> skipped,
                  current_index |-> nxt]
            ELSE RRWalk(enabled, nxt, n - 1, Append(skipped, candidate.id), at)

\* a get_next_webhook_round_robin that puts the index back where it found it
\* when it has selected nothing
get_next_webhook_round_robin_KeepsCursor(g, at) ==
    LET enabled == get_enabled_webhooks(g, TRUE)
        r == RRWalk(enabled, g.current_index, Len(enabled), <<>>, at)
    IN IF enabled = <<>>
       THEN [webhook |-> NoWebhook, skipped |-> <<>>,
             current_index |-> g.current_index]
       ELSE IF r.webhook = NoWebhook
            THEN [r EXCEPT !.current_index = g.current_index]
            ELSE r

\* BossGroup.get_next_webhook_round_robin
get_next_webhook_round_robin(g, at) ==
    LET enabled == get_enabled_webhooks(g, TRUE)
    IN IF enabled = <<>>
       THEN [webhook |-> NoWebhook, skipped |-> <<>>,
             current_index |-> g.current_index]
       ELSE RRWalk(enabled, g.current_index, Len(enabled), <<>>, at)

\* a filter that never matches
IsFiltered_Never(content, image) == FALSE

\* the filter of relay_message: a text-only message holding a keyword
IsFiltered(content, image) ==
    ~image /\ content = "noise"

\* one entry of relay_message's results list
Result(wh, success, is_fixed, skipped) ==
    [id |-> wh.id, name |-> wh.name, type |-> wh.type, success |-> success,
     is_fixed |-> is_fixed, skipped |-> skipped]

\* a count of failures that takes the skipped entries for failures
FailCount_CountsSkipped(results) ==
    Len(SelectSeq(results, LAMBDA r : ~r.success))

\* a count of successes that takes every entry for a success
SuccessCount_CountsAll(results) == Len(results)

\* the counts relay_message takes from its results
SuccessCount(results) ==
    Len(SelectSeq(results, LAMBDA r : r.success))
FailCount(results) ==
    Len(SelectSeq(results, LAMBDA r : ~r.success /\ ~r.skipped))
SkippedCount(results) ==
    Len(SelectSeq(results, LAMBDA r : r.skipped))

\* a _send_to_webhook that counts no failure
RecordOutcome_SentOnly(wh, success) ==
    IF success THEN [wh EXCEPT !.stats.sent = @ + 1] ELSE wh

\* _send_to_webhook's bookkeeping: the webhook's own counter
RecordOutcome(wh, success) ==
    IF success
    THEN [wh EXCEPT !.stats.sent = @ + 1]
    ELSE [wh EXCEPT !.stats.failed = @ + 1]

-----------------------------------------------------------------------------
(* Threads *)

IdleThread ==
    [pc |-> "idle", gid |-> NoGroup, content |-> "", image |-> FALSE,
     results |-> <<>>, fixed |-> <<>>, todo |-> <<>>, pass |-> "",
     target |-> NoWebhook, webhook |-> NoWebhook, skipped |-> <<>>,
     tmp |-> 0, req |-> 0, cur0 |-> 0, ret |-> [kind |-> "none"],
     arg |-> <<>>, snap |-> <<>>, fd |-> 0, due |-> 0]

\* the inbound messages: plain text, a noise marker, a noise marker with media
Messages == {[content |-> "text", image |-> FALSE],
             [content |-> "noise", image |-> FALSE],
             [content |-> "noise", image |-> TRUE]}

\* the number of the request a thread starts: requests are counted from 1
RequestNo(q) == q.started + 1

\* one call received by the Sender
SenderCall(th, id) ==
    [req |-> th.req, gid |-> th.gid, id |-> id, pass |-> th.pass,
     cur0 |-> th.cur0, answer |-> "pending"]

\* the Sender's log once the call request req is waiting for has been answered
Answered(log, req, success) ==
    [i \in 1 .. Len(log) |->
        IF log[i].req = req /\ log[i].answer = "pending"
        THEN [log[i] EXCEPT !.answer = IF success THEN "ok" ELSE "fail"]
        ELSE log[i]]

\* what a thread keeps of a finished relay_message: its return value and the
\* locals the properties read
Finished(th, ret) ==
    [IdleThread EXCEPT !.gid = th.gid, !.content = th.content,
        !.image = th.image, !.req = th.req, !.cur0 = th.cur0,
        !.pass = th.pass, !.fixed = th.fixed, !.webhook = th.webhook,
        !.skipped = th.skipped, !.ret = ret]

\* what relay_message returns
RelayResult(success, message, details) ==
    [kind |-> "relay", success |-> success, message |-> message,
     details |-> details]

\* one entry of BossGroup.history
HistoryEntry(status, results, image, mode) ==
    [status |-> status,
     marks |-> [i \in 1 .. Len(results) |->
                  IF results[i].skipped THEN "skip"
                  ELSE IF results[i].success THEN "ok" ELSE "fail"],
     has_image |-> image, mode |-> mode]

ModeName(g) == IF g.send_mode = MODE_SYNC THEN "sync" ELSE "rr"

\* leaving the `with self.lock` block
Unlocked(g) == [g EXCEPT !.lock = NoThread]

\* relay_message up to the read of stats["received"]: a filtered message
\* returns at once, any other starts the normal flow
RelayStart(t, gid, content, image) ==
    /\ alive
    /\ threads[t].pc = "idle"
    /\ quota.dispatch > 0
    /\ image => quota.media > 0
    /\ gid \in DOMAIN groups
    /\ quota' = [quota EXCEPT !.dispatch = @ - 1, !.started = @ + 1,
                              !.media = IF image THEN @ - 1 ELSE @,
                              !.passed = IF IsFiltered(content, image)
                                         THEN @ ELSE @ + 1]
    /\ IF IsFiltered(content, image)
       THEN /\ groups' = [groups EXCEPT ![gid].history =
                  AppendLeft(@, HistoryEntry("filtered", <<>>, FALSE, "filter"))]
            /\ threads' = [threads EXCEPT ![t] =
                  [IdleThread EXCEPT !.gid = gid, !.content = content,
                      !.image = image, !.req = RequestNo(quota),
                      !.ret = RelayResult(TRUE, "filtered", <<>>)]]
       ELSE /\ threads' = [threads EXCEPT ![t] =
                  [IdleThread EXCEPT !.pc = "recv_write", !.gid = gid,
                      !.content = content, !.image = image,
                      !.req = RequestNo(quota),
                      !.tmp = groups[gid].stats.received]]
            /\ UNCHANGED groups
    /\ UNCHANGED <<timeVars, feishuVars>>
    /\ UNCHANGED <<now, sender_log, storeVars>>

\* the store of stats["received"] += 1
RecvWrite(t) ==
    LET th == threads[t] IN
    /\ alive
    /\ th.pc = "recv_write"
    /\ groups' = [groups EXCEPT ![th.gid].stats.received = th.tmp + 1]
    /\ threads' = [threads EXCEPT ![t].pc = "lock_wait", ![t].tmp = 0]
    /\ UNCHANGED <<timeVars, feishuVars>>
    /\ UNCHANGED <<now, quota, sender_log, storeVars>>

\* a lock that never makes anyone wait
LockFree_Always(g) == TRUE

\* threading.Lock: the group's lock can be taken when no thread holds it
LockFree(g) == g.lock = NoThread

\* `with self.lock:` and the list of fixed webhooks
AcquireLock(t) ==
    LET th == threads[t]
        g == groups[th.gid]
        fixed == get_fixed_webhooks(g)
    IN
    /\ alive
    /\ th.pc = "lock_wait"
    /\ LockFree(g)
    /\ groups' = [groups EXCEPT ![th.gid].lock = t]
    /\ threads' = [threads EXCEPT ![t].pc = "fixed", ![t].pass = "fixed",
                      ![t].fixed = [i \in 1 .. Len(fixed) |-> fixed[i].id],
                      ![t].todo = [i \in 1 .. Len(fixed) |-> fixed[i].id],
                      ![t].cur0 = g.current_index]
    /\ UNCHANGED <<timeVars, feishuVars>>
    /\ UNCHANGED <<now, quota, sender_log, storeVars>>

\* one iteration of a `for wh in ...` loop of relay_message: the webhook is
\* handed to the Sender when its schedule covers now, and skipped otherwise
LoopNext(t, loop) ==
    LET th == threads[t]
        g == groups[th.gid]
        wh == WebhookOf(g, th.todo[1])
    IN
    /\ alive
    /\ th.pc = loop
    /\ th.todo # <<>>
    /\ IF is_in_schedule(wh, now)
       THEN /\ threads' = [threads EXCEPT ![t].pc = "send", ![t].target = wh.id]
            /\ sender_log' = Append(sender_log, SenderCall(th, wh.id))
       ELSE /\ threads' = [threads EXCEPT ![t].todo = Tail(@),
                  ![t].results =
                      Append(@, Result(wh, FALSE, loop = "fixed", TRUE))]
            /\ UNCHANGED sender_log
    /\ UNCHANGED <<timeVars, feishuVars>>
    /\ UNCHANGED <<groups, now, quota, storeVars>>

\* the fixed pass
FixedNext(t) == LoopNext(t, "fixed")

\* the loop of the sync mode
SyncNext(t) == LoopNext(t, "sync")

\* where relay_message goes on after a send of this pass
AfterSend(pass) == IF pass = "rr" THEN "unlock" ELSE pass

\* _send_to_webhook returns: the Sender's answer is the environment's
SendReturn(t, success) ==
    LET th == threads[t]
        g == groups[th.gid]
        wh == WebhookOf(g, th.target)
        k == CHOOSE i \in 1 .. Len(g.webhooks) : g.webhooks[i].id = th.target
    IN
    /\ alive
    /\ th.pc = "send"
    /\ success \/ quota.fail > 0
    /\ quota' = IF success THEN quota ELSE [quota EXCEPT !.fail = @ - 1]
    /\ groups' = [groups EXCEPT ![th.gid].webhooks[k] = RecordOutcome(wh, success)]
    /\ threads' = [threads EXCEPT ![t].pc = AfterSend(th.pass),
                      ![t].target = NoWebhook,
                      ![t].todo = IF th.pass = "rr" THEN @ ELSE Tail(@),
                      ![t].results =
                          Append(@, Result(wh, success, th.pass = "fixed", FALSE))]
    /\ sender_log' = Answered(sender_log, th.req, success)
    /\ UNCHANGED <<timeVars, feishuVars>>
    /\ UNCHANGED <<now, storeVars>>

\* the sync branch after the fixed pass
SyncEntry(t) ==
    LET th == threads[t]
        g == groups[th.gid]
        enabled == get_enabled_webhooks(g, TRUE)
    IN
    /\ alive
    /\ th.pc = "fixed"
    /\ th.todo = <<>>
    /\ g.send_mode = MODE_SYNC
    /\ IF enabled = <<>> /\ th.fixed = <<>>
       THEN /\ groups' = [groups EXCEPT ![th.gid] =
                  Unlocked([g EXCEPT !.history = AppendLeft(@,
                      HistoryEntry("no_enabled", <<>>, th.image, "sync"))])]
            /\ threads' = [threads EXCEPT ![t] =
                  Finished([th EXCEPT !.pass = "sync"],
                           RelayResult(FALSE, "no_enabled", <<>>))]
       ELSE /\ threads' = [threads EXCEPT ![t].pc = "sync", ![t].pass = "sync",
                  ![t].todo = [i \in 1 .. Len(enabled) |-> enabled[i].id]]
            /\ UNCHANGED groups
    /\ UNCHANGED <<timeVars, feishuVars>>
    /\ UNCHANGED <<now, quota, sender_log, storeVars>>

\* a test that gives up whenever the walk selected nothing
NothingToSend_IgnoresFixed(webhook, fixed) == webhook = NoWebhook

\* `if not webhook and not fixed_webhooks`: the round-robin branch returns
\* failure at once
NothingToSend(webhook, fixed) == webhook = NoWebhook /\ fixed = <<>>

\* the round-robin branch after the fixed pass: get_next_webhook_round_robin
\* loads self.current_index
RoundRobinRead(t) ==
    LET th == threads[t]
        g == groups[th.gid]
    IN
    /\ alive
    /\ th.pc = "fixed"
    /\ th.todo = <<>>
    /\ g.send_mode # MODE_SYNC
    /\ threads' = [threads EXCEPT ![t].pc = "rr_walk",
                      ![t].tmp = g.current_index]
    /\ UNCHANGED <<timeVars, feishuVars>>
    /\ UNCHANGED <<groups, now, quota, sender_log, storeVars>>

\* the walk of get_next_webhook_round_robin from the index it loaded, the
\* store of the index it leaves, and what relay_message does with the answer
RoundRobinEntry(t) ==
    LET th == threads[t]
        g == groups[th.gid]
        r == get_next_webhook_round_robin([g EXCEPT !.current_index = th.tmp],
                                          now)
        skipped == [i \in 1 .. Len(r.skipped) |->
                       Result(WebhookOf(g, r.skipped[i]), FALSE, FALSE, TRUE)]
        results == th.results \o skipped
        skip_msg == IF r.skipped # <<>> THEN "all_out_of_schedule"
                    ELSE "no_enabled"
        g1 == [g EXCEPT !.current_index = r.current_index]
        th1 == [th EXCEPT !.pass = "rr", !.webhook = r.webhook,
                   !.skipped = r.skipped, !.results = results, !.tmp = 0]
    IN
    /\ alive
    /\ th.pc = "rr_walk"
    /\ IF NothingToSend(r.webhook, th.fixed)
       THEN /\ groups' = [groups EXCEPT ![th.gid] =
                  Unlocked([g1 EXCEPT !.history = AppendLeft(@,
                      HistoryEntry(skip_msg, <<>>, th.image, "rr"))])]
            /\ threads' = [threads EXCEPT ![t] =
                  Finished(th1, RelayResult(FALSE, skip_msg, results))]
            /\ UNCHANGED sender_log
       ELSE /\ groups' = [groups EXCEPT ![th.gid] = g1]
            /\ threads' = [threads EXCEPT ![t] =
                  [th1 EXCEPT
                      !.pc = IF r.webhook = NoWebhook THEN "unlock" ELSE "send",
                      !.target = r.webhook]]
            /\ sender_log' = IF r.webhook = NoWebhook THEN sender_log
                             ELSE Append(sender_log, SenderCall(th1, r.webhook))
    /\ UNCHANGED <<timeVars, feishuVars>>
    /\ UNCHANGED <<now, quota, storeVars>>

\* the end of the `with self.lock` block
ReleaseLock(t) ==
    LET th == threads[t] IN
    /\ alive
    /\ \/ th.pc = "unlock"
       \/ th.pc = "sync" /\ th.todo = <<>>
    /\ groups' = [groups EXCEPT ![th.gid] = Unlocked(@)]
    /\ threads' = [threads EXCEPT ![t].pc = "sent_read"]
    /\ UNCHANGED <<timeVars, feishuVars>>
    /\ UNCHANGED <<now, quota, sender_log, storeVars>>

\* the load of stats["total_sent"] += success_count
SentRead(t) ==
    LET th == threads[t] IN
    /\ alive
    /\ th.pc = "sent_read"
    /\ threads' = [threads EXCEPT ![t].pc = "sent_write",
                      ![t].tmp = groups[th.gid].stats.total_sent]
    /\ UNCHANGED <<timeVars, feishuVars>>
    /\ UNCHANGED <<groups, now, quota, sender_log, storeVars>>

\* the store of stats["total_sent"] += success_count
SentWrite(t) ==
    LET th == threads[t] IN
    /\ alive
    /\ th.pc = "sent_write"
    /\ groups' = [groups EXCEPT ![th.gid].stats.total_sent =
                     th.tmp + SuccessCount(th.results)]
    /\ threads' = [threads EXCEPT ![t].pc = "failed_read", ![t].tmp = 0]
    /\ UNCHANGED <<timeVars, feishuVars>>
    /\ UNCHANGED <<now, quota, sender_log, storeVars>>

\* the load of stats["total_failed"] += fail_count
FailedRead(t) ==
    LET th == threads[t] IN
    /\ alive
    /\ th.pc = "failed_read"
    /\ threads' = [threads EXCEPT ![t].pc = "failed_write",
                      ![t].tmp = groups[th.gid].stats.total_failed]
    /\ UNCHANGED <<timeVars, feishuVars>>
    /\ UNCHANGED <<groups, now, quota, sender_log, storeVars>>

\* the store of stats["total_failed"] += fail_count, then the history entry
\* and the return value
FailedWrite(t) ==
    LET th == threads[t]
        g == groups[th.gid]
        sc == SuccessCount(th.results)
    IN
    /\ alive
    /\ th.pc = "failed_write"
    /\ groups' = [groups EXCEPT
           ![th.gid].stats.total_failed = th.tmp + FailCount(th.results),
           ![th.gid].history = AppendLeft(@,
               HistoryEntry("sent", th.results, th.image, ModeName(g)))]
    /\ threads' = [threads EXCEPT ![t] =
           Finished(th, RelayResult(sc > 0,
               [ok |-> sc, failed |-> FailCount(th.results),
                skipped |-> SkippedCount(th.results)], th.results))]
    /\ UNCHANGED <<timeVars, feishuVars>>
    /\ UNCHANGED <<now, quota, sender_log, storeVars>>

\* the server runs every request on a thread of its own: the request is
\* given the first thread that is running nothing
FreeThread(t) ==
    /\ threads[t].pc = "idle"
    /\ \A u \in DOMAIN threads : u < t => threads[u].pc # "idle"

\* an inbound message for group gid arrives and runs on thread t
Receive(t) ==
    /\ FreeThread(t)
    /\ \E gid \in DOMAIN groups, m \in Messages :
          RelayStart(t, gid, m.content, m.image)

-----------------------------------------------------------------------------
(* Initial states *)

Clock == {[date |-> 0, time |-> 0], [date |-> 0, time |-> 1],
          [date |-> 1, time |-> 0]}

\* the date_range schedule each sample webhook may carry
SampleSchedule(i) ==
    CASE i = 1 -> <<[date |-> 0, start_time |-> 1, end_time |-> 2]>>
      [] i = 2 -> <<[date |-> 1, start_time |-> 1, end_time |-> 1],
                    [date |-> 0, start_time |-> 2, end_time |-> 0]>>
      [] OTHER -> <<>>

SampleType(i) ==
    CASE i = 1 -> "discord" [] i = 2 -> "feishu" [] OTHER -> "wecom"

\* three webhooks with the given flags
SampleWebhooks(en, fx, sc) ==
    [i \in 1 .. Len(WebhookIds) |->
        WebhookItem(WebhookIds[i], SampleType(i), en[i], fx[i],
                    IF sc[i] THEN "date_range" ELSE "off",
                    IF sc[i] THEN SampleSchedule(i) ELSE <<>>)]

Flags == [1 .. Len(WebhookIds) -> BOOLEAN]
NoFlags == [i \in 1 .. Len(WebhookIds) |-> FALSE]
AllFlags == [i \in 1 .. Len(WebhookIds) |-> TRUE]
FirstFlags == [i \in 1 .. Len(WebhookIds) |-> i < Len(WebhookIds)]
TailFlags == [i \in 1 .. Len(WebhookIds) |-> i > 1]
SecondFlag == [i \in 1 .. Len(WebhookIds) |-> i = 2]
LastFlag == [i \in 1 .. Len(WebhookIds) |-> i = Len(WebhookIds)]

-----------------------------------------------------------------------------
(* The configuration store *)

\* a to_save_dict that leaves the enabled flag out
WebhookItem_to_save_dict_NoEnabled(wh) ==
    [id |-> wh.id, name |-> wh.name, url |-> wh.url, type |-> wh.type,
     is_fixed |-> wh.is_fixed,
     schedule_mode |-> wh.schedule_mode, schedules |-> wh.schedules,
     stats |-> wh.stats, created_at |-> wh.created_at]

\* WebhookItem.to_save_dict
WebhookItem_to_save_dict(wh) ==
    [id |-> wh.id, name |-> wh.name, url |-> wh.url, type |-> wh.type,
     enabled |-> wh.enabled, is_fixed |-> wh.is_fixed,
     schedule_mode |-> wh.schedule_mode, schedules |-> wh.schedules,
     stats |-> wh.stats, created_at |-> wh.created_at]

\* BossGroup.to_save_dict: the lock, the group counters and the history are
\* not part of the persisted form
BossGroup_to_save_dict(g) ==
    [display_name |-> g.display_name, send_mode |-> g.send_mode,
     current_index |-> g.current_index,
     webhooks |-> [i \in 1 .. Len(g.webhooks) |->
                      WebhookItem_to_save_dict(g.webhooks[i])]]

\* the dictionary _save_config_sync renders
Snapshot(c, gs, at) ==
    [version |-> "4.5", updated_at |-> at, feishu_credentials |-> c,
     groups |-> [gid \in DOMAIN gs |-> BossGroup_to_save_dict(gs[gid])]]

\* a place of a file that holds nothing
NoPiece == [part |-> 0]

\* a file that has just been created or truncated
EmptyFile == [k \in 1 .. FileParts |-> NoPiece]

\* the file json.dump and close leave when nothing disturbs them
WholeFile(snap) == [k \in 1 .. FileParts |-> [part |-> k, snap |-> snap]]

\* the file holds the whole text of one snapshot
Complete(content) ==
    /\ \A k \in 1 .. FileParts : content[k].part = k
    /\ \A k \in 1 .. FileParts : content[k].snap = content[1].snap

\* the timer _save_timer refers to has not fired yet
TimerWaiting(ths, timer) ==
    timer # NoThread /\ ths[timer].pc = "timer_wait"

\* a thread other than t that runs nothing
HasFreeThread(ths, t) ==
    \E s \in DOMAIN ths : s # t /\ ths[s].pc = "idle"
FirstFree(ths, t) ==
    CHOOSE s \in DOMAIN ths :
        /\ s # t /\ ths[s].pc = "idle"
        /\ \A u \in DOMAIN ths : (u # t /\ ths[u].pc = "idle") => s <= u

\* a request to schedule a save, as store_log records it
SaveRequest == [kind |-> "request", at |-> clock]

\* a write the timer has started, as store_log records it
TimerWrite(snap) == [kind |-> "write", at |-> clock, snap |-> snap]

\* the console may send a request that schedules a save: the requests of a
\* run come early enough for the run to see their timers fire
AdminOpen == quota.admin > 0 /\ clock + Debounce <= MaxClock

\* a thread can be found for the timer
CanScheduleSave(ths, timer, t) ==
    TimerWaiting(ths, timer) \/ HasFreeThread(ths, t)

\* a _schedule_save that leaves a waiting timer alone and starts another
_schedule_save_NoCancel(ths, timer, t) ==
    LET s == FirstFree(ths, t) IN
    [threads |-> [ths EXCEPT ![s] = [IdleThread EXCEPT !.pc = "timer_wait",
                                        !.due = clock + Debounce]],
     save_timer |-> s,
     store_log |-> Append(store_log, SaveRequest)]

\* _schedule_save called by thread t (NoThread: by a handler that has
\* returned in the same step): a timer that is still waiting is cancelled and
\* a new one, with a new delay, takes its place; a timer that has fired is
\* left to finish and a new thread waits
_schedule_save(ths, timer, t) ==
    IF TimerWaiting(ths, timer)
    THEN [threads |-> [ths EXCEPT ![timer].due = clock + Debounce],
          save_timer |-> timer,
          store_log |-> Append(store_log, SaveRequest)]
    ELSE LET s == FirstFree(ths, t) IN
         [threads |-> [ths EXCEPT ![s] = [IdleThread EXCEPT !.pc = "timer_wait",
                                             !.due = clock + Debounce]],
          save_timer |-> s,
          store_log |-> Append(store_log, SaveRequest)]

\* the position of webhook id in the list of group g
IndexOf(g, id) == CHOOSE i \in 1 .. Len(g.webhooks) : g.webhooks[i].id = id

\* BossGroup.toggle_webhook: the whole handler runs inside `with self.lock`
toggle_webhook(gid, id, enabled) ==
    LET g == groups[gid]
        r == _schedule_save(threads, save_timer, NoThread)
    IN
    /\ alive
    /\ AdminOpen
    /\ LockFree(g)
    /\ \E w \in Range(g.webhooks) : w.id = id
    /\ CanScheduleSave(threads, save_timer, NoThread)
    /\ groups' = [groups EXCEPT ![gid].webhooks[IndexOf(g, id)].enabled = enabled]
    /\ threads' = r.threads
    /\ save_timer' = r.save_timer
    /\ store_log' = r.store_log
    /\ quota' = [quota EXCEPT !.admin = @ - 1]
    /\ UNCHANGED <<clock, feishuVars>>
    /\ UNCHANGED <<now, creds, files, inodes, alive, sender_log>>

\* a handler of BossGroup that runs inside `with self.lock`, leaves the group
\* as g1 and calls _trigger_save before it returns
GroupEdit(gid, g1) ==
    LET r == _schedule_save(threads, save_timer, NoThread) IN
    /\ alive
    /\ AdminOpen
    /\ gid \in DOMAIN groups
    /\ LockFree(groups[gid])
    /\ CanScheduleSave(threads, save_timer, NoThread)
    /\ groups' = [groups EXCEPT ![gid] = g1]
    /\ threads' = r.threads
    /\ save_timer' = r.save_timer
    /\ store_log' = r.store_log
    /\ quota' = [quota EXCEPT !.admin = @ - 1]
    /\ UNCHANGED <<now, creds, files, inodes, alive, sender_log, clock,
                   feishuVars>>

\* a sequence without its i-th element: list.pop(i)
Pop(seq, i) == SubSeq(seq, 1, i - 1) \o SubSeq(seq, i + 1, Len(seq))

\* BossGroup.set_send_mode; with any other mode the handler returns failure
\* and changes nothing
set_send_mode(gid, mode) ==
    /\ mode \in {MODE_SYNC, MODE_ROUND_ROBIN}
    /\ GroupEdit(gid, [groups[gid] EXCEPT !.send_mode = mode])

\* BossGroup.add_webhook: the new webhook is enabled, has no schedule, and
\* takes its id from its url and the time; with a url the group has, or one
\* that is not https, or an unknown type, the handler returns failure and
\* changes nothing
add_webhook(gid, url, type, is_fixed) ==
    /\ gid \in DOMAIN groups
    /\ \A w \in Range(groups[gid].webhooks) : w.url # url
    /\ type \in {"discord", "feishu", "wecom"}
    /\ GroupEdit(gid, [groups[gid] EXCEPT !.webhooks = Append(@,
           [WebhookItem(url, type, TRUE, is_fixed, "off", <<>>)
               EXCEPT !.created_at = now])])

\* BossGroup.remove_webhook: the index goes back to 0 when it is past the
\* end of the list that is left
remove_webhook(gid, id) ==
    /\ gid \in DOMAIN groups
    /\ \E w \in Range(groups[gid].webhooks) : w.id = id
    /\ LET g == groups[gid]
           rest == Pop(g.webhooks, IndexOf(g, id))
       IN GroupEdit(gid, [g EXCEPT !.webhooks = rest,
              !.current_index = IF @ >= Len(rest) /\ Len(rest) > 0
                                THEN 0 ELSE @])

\* BossGroup.toggle_webhook_fixed
toggle_webhook_fixed(gid, id, is_fixed) ==
    /\ gid \in DOMAIN groups
    /\ \E w \in Range(groups[gid].webhooks) : w.id = id
    /\ GroupEdit(gid, [groups[gid] EXCEPT
           !.webhooks[IndexOf(groups[gid], id)].is_fixed = is_fixed])

\* BossGroup.update_webhook: a name that is empty is refused
update_webhook(gid, id, name) ==
    /\ gid \in DOMAIN groups
    /\ \E w \in Range(groups[gid].webhooks) : w.id = id
    /\ name # ""
    /\ GroupEdit(gid, [groups[gid] EXCEPT
           !.webhooks[IndexOf(groups[gid], id)].name = name])

\* re.sub(r'[^a-zA-Z0-9_]', '', group_id.lower()) or "default", on the ids
\* the console may send
CleanId(group_id) ==
    CASE group_id = "C" -> "c"
      [] group_id = "c!" -> "c"
      [] group_id = "!" -> "default"
      [] OTHER -> group_id

\* display_name or f"{group_id.upper()} BOSS"
DisplayName(group_id, display_name) ==
    IF display_name # "" THEN display_name
    ELSE CASE group_id = "a" -> "A BOSS"
           [] group_id = "b" -> "B BOSS"
           [] group_id = "c" -> "C BOSS"
           [] OTHER -> "DEFAULT BOSS"

\* the route create_group and WebhookRelayManager.create_group, inside
\* `with self.lock` of the manager: a group that exists is left as it is
create_group(group_id, display_name) ==
    LET r == _schedule_save(threads, save_timer, NoThread)
        clean_id == CleanId(group_id)
    IN
    /\ alive
    /\ AdminOpen
    /\ group_id # ""
    /\ group_id \notin DOMAIN groups
    /\ clean_id \notin DOMAIN groups
    /\ CanScheduleSave(threads, save_timer, NoThread)
    /\ groups' = [gid \in DOMAIN groups \cup {clean_id} |->
                     IF gid = clean_id
                     THEN [BossGroup(<<>>, MODE_SYNC, 0) EXCEPT
                              !.display_name = DisplayName(clean_id,
                                                           display_name)]
                     ELSE groups[gid]]
    /\ threads' = r.threads
    /\ save_timer' = r.save_timer
    /\ store_log' = r.store_log
    /\ quota' = [quota EXCEPT !.admin = @ - 1]
    /\ UNCHANGED <<now, creds, files, inodes, alive, sender_log, clock,
                   feishuVars>>

\* WebhookRelayManager.delete_group, inside `with self.lock` of the manager;
\* the model keeps no group outside the manager's table, so the group is
\* deleted when no handler is at work on it
delete_group(group_id) ==
    LET r == _schedule_save(threads, save_timer, NoThread) IN
    /\ alive
    /\ AdminOpen
    /\ group_id \in DOMAIN groups
    /\ \A t \in DOMAIN threads :
          threads[t].pc # "idle" => threads[t].gid # group_id
    /\ CanScheduleSave(threads, save_timer, NoThread)
    /\ groups' = [gid \in DOMAIN groups \ {group_id} |-> groups[gid]]
    /\ threads' = r.threads
    /\ save_timer' = r.save_timer
    /\ store_log' = r.store_log
    /\ quota' = [quota EXCEPT !.admin = @ - 1]
    /\ UNCHANGED <<now, creds, files, inodes, alive, sender_log, clock,
                   feishuVars>>

\* str.strip() on the credentials the console may send
Strip(str) ==
    CASE str = " id1 " -> "id1"
      [] str = " " -> ""
      [] OTHER -> str

\* the credentials the console may send
CredentialRequests ==
    {[app_id |-> " id1 ", app_secret |-> "secret1"],
     [app_id |-> " ", app_secret |-> " "]}

\* update_feishu_credentials up to the end of `with self.lock`: empty
\* strings are refused, the manager's fields take the stripped strings
update_feishu_credentials(t, app_id, app_secret) ==
    /\ alive
    /\ FreeThread(t)
    /\ AdminOpen
    /\ app_id # "" /\ app_secret # ""
    /\ creds' = [app_id |-> Strip(app_id), app_secret |-> Strip(app_secret)]
    /\ threads' = [threads EXCEPT ![t] = [IdleThread EXCEPT !.pc = "cred_globals"]]
    /\ quota' = [quota EXCEPT !.admin = @ - 1]
    /\ UNCHANGED <<groups, now, sender_log, save_timer, files, inodes, alive,
                   timeVars, feishuVars>>

\* FEISHU_APP_ID = self.feishu_app_id; FEISHU_APP_SECRET = ...
CredGlobals(t) ==
    /\ alive
    /\ threads[t].pc = "cred_globals"
    /\ feishu' = [feishu EXCEPT !.FEISHU_APP_ID = creds.app_id,
                                !.FEISHU_APP_SECRET = creds.app_secret]
    /\ threads' = [threads EXCEPT ![t].pc = "cred_uploader"]
    /\ UNCHANGED <<groups, now, quota, sender_log, storeVars, timeVars,
                   net_log>>

\* feishu_uploader.set_credentials(self.feishu_app_id, self.feishu_app_secret)
CredUploader(t) ==
    /\ alive
    /\ threads[t].pc = "cred_uploader"
    /\ feishu' = [feishu EXCEPT !.app_id = creds.app_id,
                                !.app_secret = creds.app_secret]
    /\ threads' = [threads EXCEPT ![t].pc = "cred_reset"]
    /\ UNCHANGED <<groups, now, quota, sender_log, storeVars, timeVars,
                   net_log>>

\* feishu_uploader.token_cache = {'token': None, 'expire_time': 0}
CredReset(t) ==
    /\ alive
    /\ threads[t].pc = "cred_reset"
    /\ feishu' = [feishu EXCEPT
           !.token_cache = [token |-> NoToken, expire_time |-> 0]]
    /\ threads' = [threads EXCEPT ![t].pc = "cred_save"]
    /\ UNCHANGED <<groups, now, quota, sender_log, storeVars, timeVars,
                   net_log>>

\* update_feishu_credentials: self._schedule_save() and the return
CredSave(t) ==
    LET r == _schedule_save([threads EXCEPT ![t] = IdleThread], save_timer, t)
    IN
    /\ alive
    /\ threads[t].pc = "cred_save"
    /\ CanScheduleSave(threads, save_timer, t)
    /\ threads' = [r.threads EXCEPT ![t] =
           [IdleThread EXCEPT !.ret = [kind |-> "credentials", success |-> TRUE]]]
    /\ save_timer' = r.save_timer
    /\ store_log' = r.store_log
    /\ UNCHANGED <<groups, now, quota, sender_log, creds, files, inodes, alive,
                   clock, feishuVars>>

\* the schedule requests of the admin console
ScheduleRequests ==
    {[schedule_mode |-> "date_range", schedules |-> SampleSchedule(1)],
     [schedule_mode |-> "date_range", schedules |-> <<>>]}

\* the route set_webhook_schedule up to the store of webhook.schedule_mode;
\* the route takes no lock
set_webhook_schedule(t, gid, id, data) ==
    LET g == groups[gid] IN
    /\ alive
    /\ FreeThread(t)
    /\ quota.admin > 0
    /\ \E w \in Range(g.webhooks) : w.id = id
    /\ groups' = [groups EXCEPT
           ![gid].webhooks[IndexOf(g, id)].schedule_mode = data.schedule_mode]
    /\ threads' = [threads EXCEPT ![t] =
           [IdleThread EXCEPT !.pc = "sched_windows", !.gid = gid,
               !.target = id, !.arg = data.schedules]]
    /\ quota' = [quota EXCEPT !.admin = @ - 1]
    /\ UNCHANGED <<timeVars, feishuVars>>
    /\ UNCHANGED <<now, sender_log, storeVars>>

\* a date, start or end that is the empty string, or is missing
EmptyField == 0 - 1

\* set_webhook_schedule: the windows of the request whose date, start and
\* end are all true; the others are left out
valid_schedules(schedules) ==
    SelectSeq(schedules, LAMBDA s : /\ s.date # EmptyField
                                    /\ s.start_time # EmptyField
                                    /\ s.end_time # EmptyField)

\* set_webhook_schedule: the store of webhook.schedules, then force_save;
\* the route holds the webhook object, and when the webhook has been removed
\* from its group in the meantime the store changes nothing the manager has
SetScheduleWindows(t) ==
    LET th == threads[t]
        g == groups[th.gid]
    IN
    /\ alive
    /\ th.pc = "sched_windows"
    /\ groups' =
          IF th.gid \in DOMAIN groups
             /\ \E w \in Range(g.webhooks) : w.id = th.target
          THEN [groups EXCEPT
                  ![th.gid].webhooks[IndexOf(g, th.target)].schedules =
                      valid_schedules(th.arg)]
          ELSE groups
    /\ threads' = [threads EXCEPT ![t].pc = "save_render", ![t].arg = <<>>]
    /\ UNCHANGED <<timeVars, feishuVars>>
    /\ UNCHANGED <<now, quota, sender_log, storeVars>>

\* the route force_save
force_save(t) ==
    /\ alive
    /\ FreeThread(t)
    /\ quota.admin > 0
    /\ threads' = [threads EXCEPT ![t] = [IdleThread EXCEPT !.pc = "save_render"]]
    /\ quota' = [quota EXCEPT !.admin = @ - 1]
    /\ UNCHANGED <<timeVars, feishuVars>>
    /\ UNCHANGED <<groups, now, sender_log, storeVars>>

\* the delay of the timer that runs on thread th is over
TimerDue(th) == th.pc = "timer_wait" /\ clock >= th.due

\* _save_config_sync, run by a request thread or by the timer thread when
\* its delay is over: the dictionary is rendered from the state as it is
SaveRender(t) ==
    LET th == threads[t]
        snap == Snapshot(creds, groups, now)
    IN
    /\ alive
    /\ th.pc = "save_render" \/ TimerDue(th)
    /\ threads' = [threads EXCEPT ![t] =
           [IdleThread EXCEPT !.pc = "save_open", !.gid = th.gid,
               !.target = th.target, !.snap = <<snap>>]]
    /\ store_log' = IF TimerDue(th) THEN Append(store_log, TimerWrite(snap))
                    ELSE store_log
    /\ UNCHANGED <<clock, feishuVars>>
    /\ UNCHANGED <<groups, now, quota, sender_log, storeVars>>

\* open(temp_file, 'w'): the file the name refers to is truncated, or a new
\* file is created under the name
SaveOpen(t) ==
    LET th == threads[t]
        new == Len(inodes) + 1
    IN
    /\ alive
    /\ th.pc = "save_open"
    /\ IF files.tmp = 0
       THEN /\ inodes' = Append(inodes, EmptyFile)
            /\ files' = [files EXCEPT !.tmp = new]
            /\ threads' = [threads EXCEPT ![t].pc = "save_write", ![t].fd = new,
                              ![t].tmp = 0]
       ELSE /\ inodes' = [inodes EXCEPT ![files.tmp] = EmptyFile]
            /\ UNCHANGED files
            /\ threads' = [threads EXCEPT ![t].pc = "save_write",
                              ![t].fd = files.tmp, ![t].tmp = 0]
    /\ UNCHANGED <<timeVars, feishuVars>>
    /\ UNCHANGED <<groups, now, quota, sender_log, creds, save_timer, alive>>

\* json.dump: the next piece of the text reaches the file at the position of
\* this thread's file object; after the last piece the file is closed
SaveWrite(t) ==
    LET th == threads[t]
        k == th.tmp + 1
    IN
    /\ alive
    /\ th.pc = "save_write"
    /\ inodes' = [inodes EXCEPT ![th.fd][k] = [part |-> k, snap |-> th.snap[1]]]
    /\ threads' = [threads EXCEPT ![t].tmp = k,
           ![t].pc = IF k = FileParts THEN "save_replace" ELSE "save_write"]
    /\ UNCHANGED <<timeVars, feishuVars>>
    /\ UNCHANGED <<groups, now, quota, sender_log, creds, save_timer, files,
                   alive>>

\* os.replace(temp_file, CONFIG_FILE); when the temporary name is gone the
\* call raises and the handler logs the error
SaveReplace(t) ==
    LET th == threads[t] IN
    /\ alive
    /\ th.pc = "save_replace"
    /\ files' = IF files.tmp = 0 THEN files
                ELSE [durable |-> files.tmp, tmp |-> 0]
    /\ threads' = [threads EXCEPT ![t] =
           [IdleThread EXCEPT !.gid = th.gid, !.target = th.target,
               !.ret = [kind |-> "save", success |-> files.tmp # 0]]]
    /\ UNCHANGED <<timeVars, feishuVars>>
    /\ UNCHANGED <<groups, now, quota, sender_log, creds, save_timer, inodes,
                   alive>>

\* a second passes; the run lasts MaxClock seconds, and longer while a timer
\* waits for the end of its delay
Tick ==
    /\ alive
    /\ \/ clock < MaxClock
       \/ \E t \in DOMAIN threads :
             threads[t].pc = "timer_wait" /\ threads[t].due > clock
    /\ clock' = clock + 1
    /\ UNCHANGED <<groups, threads, now, quota, sender_log, storeVars,
                   store_log, feishuVars>>

\* the process is killed
Crash ==
    /\ alive
    /\ alive' = FALSE
    /\ UNCHANGED <<timeVars, feishuVars>>
    /\ UNCHANGED <<groups, threads, now, quota, sender_log, creds, save_timer,
                   files, inodes>>

\* what the environment may do in a run: inbound messages, messages with
\* media among them, failing Sender calls and admin requests; `started` and
\* `passed` count the messages taken and those of them that were not filtered; `boot`
\* and `io` are the starts of the process and the failing file operations a
\* specification allows
Quota(dispatch, media, fail, admin) ==
    [dispatch |-> dispatch, started |-> 0, passed |-> 0, media |-> media,
     fail |-> fail, admin |-> admin, boot |-> 0, io |-> 0]

\* the manager after _load_config: the durable file holds the configuration
\* that was loaded, or the seed that was written when there was none
InitStore ==
    /\ creds = DefaultCredentials
    /\ save_timer = NoThread
    /\ files = [durable |-> 1, tmp |-> 0]
    /\ inodes = <<WholeFile(Snapshot(creds, groups, now))>>
    /\ alive = TRUE
    /\ clock = 0
    /\ store_log = <<>>
    /\ feishu = FeishuImageUploader
    /\ net_log = <<>>

\* one dispatch from any configuration of one group
Init ==
    /\ \E en \in Flags, fx \in Flags, sc \in Flags :
       \E mode \in {MODE_SYNC, MODE_ROUND_ROBIN}, cur \in 0 .. MaxCursor :
          groups = [gid \in {"a"} |->
                       BossGroup(SampleWebhooks(en, fx, sc), mode, cur)]
    /\ threads = [t \in {1} |-> IdleThread]
    /\ now \in Clock
    /\ sender_log = <<>>
    /\ quota = Quota(1, 1, MaxFail, 0)
    /\ InitStore

\* the steps of inbound messages
Next ==
    \/ \E t \in DOMAIN threads : Receive(t)
    \/ \E t \in DOMAIN threads : RecvWrite(t)
    \/ \E t \in DOMAIN threads : AcquireLock(t)
    \/ \E t \in DOMAIN threads : FixedNext(t)
    \/ \E t \in DOMAIN threads : SyncNext(t)
    \/ \E t \in DOMAIN threads, success \in BOOLEAN : SendReturn(t, success)
    \/ \E t \in DOMAIN threads : SyncEntry(t)
    \/ \E t \in DOMAIN threads : RoundRobinRead(t)
    \/ \E t \in DOMAIN threads : RoundRobinEntry(t)
    \/ \E t \in DOMAIN threads : ReleaseLock(t)
    \/ \E t \in DOMAIN threads : SentRead(t)
    \/ \E t \in DOMAIN threads : SentWrite(t)
    \/ \E t \in DOMAIN threads : FailedRead(t)
    \/ \E t \in DOMAIN threads : FailedWrite(t)

Spec == Init /\ [][Next]_vars

\* a run of messages without media, one after the other, to one group whose
\* webhooks are all without a schedule; only the last webhook may be fixed
InitSeq ==
    /\ \E en \in Flags, fx \in {NoFlags, LastFlag} :
       \E mode \in {MODE_SYNC, MODE_ROUND_ROBIN}, cur \in 0 .. MaxCursor :
          groups = [gid \in {"a"} |->
                       BossGroup(SampleWebhooks(en, fx, NoFlags), mode, cur)]
    /\ threads = [t \in {1} |-> IdleThread]
    /\ now = [date |-> 0, time |-> 0]
    /\ sender_log = <<>>
    /\ quota = Quota(MaxDispatch, 0, MaxFail, 0)
    /\ InitStore

SpecSeq == InitSeq /\ [][Next]_vars

\* one message per worker thread, all for one group whose webhooks are all
\* without a schedule, the workers running concurrently and at most one
\* Sender call failing; in round-robin mode the group has three eligible
\* webhooks, or two, or two and a fixed one; in sync mode it has one and a
\* fixed one
InitConc ==
    /\ \E en \in {AllFlags, FirstFlags, TailFlags}, fx \in {NoFlags, LastFlag} :
       \E mode \in {MODE_SYNC, MODE_ROUND_ROBIN}, cur \in 0 .. MaxCursor :
          /\ mode = MODE_SYNC <=> en = TailFlags
          /\ en = TailFlags => cur = 0 /\ fx = LastFlag
          /\ en = FirstFlags => fx = NoFlags /\ cur = MaxCursor
          /\ fx = LastFlag => cur = 0
          /\ groups = [gid \in {"a"} |->
                          BossGroup(SampleWebhooks(en, fx, NoFlags), mode, cur)]
    /\ threads = [t \in Workers |-> IdleThread]
    /\ now = [date |-> 0, time |-> 0]
    /\ sender_log = <<>>
    /\ quota = Quota(NumWorkers, 0, 1, 0)
    /\ InitStore

SpecConc == InitConc /\ [][Next]_vars

\* the admin requests and the write procedure
NextAdmin ==
    \/ \E gid \in DOMAIN groups, i \in 1 .. Len(WebhookIds), en \in BOOLEAN :
          toggle_webhook(gid, WebhookIds[i], en)
    \/ \E t \in DOMAIN threads, gid \in DOMAIN groups,
          i \in 1 .. Len(WebhookIds), data \in ScheduleRequests :
          set_webhook_schedule(t, gid, WebhookIds[i], data)
    \/ \E t \in DOMAIN threads : SetScheduleWindows(t)
    \/ \E t \in DOMAIN threads : force_save(t)
    \/ \E t \in DOMAIN threads : SaveRender(t)
    \/ \E t \in DOMAIN threads : SaveOpen(t)
    \/ \E t \in DOMAIN threads : SaveWrite(t)
    \/ \E t \in DOMAIN threads : SaveReplace(t)

\* the same as time passes, in a process that may be killed at any step
NextStore == NextAdmin \/ Tick \/ Crash

\* admin requests on one group, no inbound message
InitAdminOnly ==
    /\ groups = [gid \in {"a"} |->
                    BossGroup(SampleWebhooks(AllFlags, NoFlags, NoFlags),
                              MODE_SYNC, 0)]
    /\ threads = [t \in 1 .. NumWorkers + 1 |-> IdleThread]
    /\ now = [date |-> 0, time |-> 0]
    /\ sender_log = <<>>
    /\ quota = Quota(0, 0, 0, MaxAdmin)
    /\ InitStore

SpecStore == InitAdminOnly /\ [][NextStore]_vars

\* inbound messages and admin requests together
NextAll == Next \/ NextAdmin

\* two groups: a in round-robin mode with one rotating and one fixed
\* webhook, b in sync mode with one webhook; as many messages as there are
\* groups, one admin request, and a Sender that never fails
InitTwoGroups ==
    /\ groups = [gid \in {"a", "b"} |->
                    IF gid = "a"
                    THEN BossGroup(SubSeq(SampleWebhooks(AllFlags, SecondFlag,
                                                         NoFlags), 1, 2),
                                   MODE_ROUND_ROBIN, 0)
                    ELSE BossGroup(SubSeq(SampleWebhooks(AllFlags, NoFlags,
                                                         NoFlags), 1, 1),
                                   MODE_SYNC, 0)]
    /\ threads = [t \in 1 .. NumWorkers + 1 |-> IdleThread]
    /\ now = [date |-> 0, time |-> 0]
    /\ sender_log = <<>>
    /\ quota = Quota(Cardinality(DOMAIN groups), 0, 0, 1)
    /\ InitStore

SpecAdmin == InitTwoGroups /\ [][NextAll]_vars

-----------------------------------------------------------------------------
(* What the properties read *)

Ids(seq) == [i \in 1 .. Len(seq) |-> seq[i].id]

\* the schedule rule of the data model, stated on its own
CoveredRef(wh) ==
    \/ wh.schedule_mode = "off"
    \/ \E i \in 1 .. Len(wh.schedules) :
          LET s == wh.schedules[i] IN
          /\ s.date = now.date
          /\ \/ s.start_time <= s.end_time /\ s.start_time <= now.time
                /\ now.time <= s.end_time
             \/ s.start_time > s.end_time
                /\ (now.time >= s.start_time \/ now.time <= s.end_time)

\* the eligible endpoints of a group: enabled and not fixed, in list order
Eligible(g) == SelectSeq(g.webhooks, LAMBDA w : w.enabled /\ ~w.is_fixed)

\* the endpoints request req handed to the Sender in one pass, in call order
CallsOf(req, pass) ==
    Ids(SelectSeq(sender_log, LAMBDA c : c.req = req /\ c.pass = pass))

\* the results list of a dispatch, running or returned
ResultsOf(th) == IF th.pc = "idle" THEN th.ret.details ELSE th.results

\* the endpoints a results list records as skipped, of the fixed pass or not
SkipsOf(results, fixed) ==
    Ids(SelectSeq(results, LAMBDA r : r.skipped /\ r.is_fixed = fixed))

NoDuplicates(seq) == Cardinality(Range(seq)) = Len(seq)

\* the thread has returned from relay_message
Returned(th) == th.pc = "idle" /\ th.req > 0

\* the round-robin calls of a run, oldest first
RoundRobinCalls == SelectSeq(sender_log, LAMBDA c : c.pass = "rr")

-----------------------------------------------------------------------------
(* C1: a round-robin dispatch over N >= 1 eligible endpoints walks the        *)
(* eligible list cyclically from cursor mod N, visits no endpoint twice,     *)
(* selects the first covered one, records the uncovered ones before it as    *)
(* skipped and leaves the cursor one past the selected position, mod N; so   *)
(* a single covered endpoint is selected whatever the cursor was.            *)
C1_RoundRobinSelection ==
    \A t \in DOMAIN threads :
        LET th == threads[t]
            g == groups[th.gid]
            elig == Eligible(g)
            N == Len(elig)
            start == th.cur0 % N
            At(j) == elig[((start + j) % N) + 1]
            cov == {j \in 0 .. N - 1 : CoveredRef(At(j))}
            first == CHOOSE j \in cov : \A k \in cov : j <= k
        IN (th.pass = "rr" /\ N >= 1) =>
             /\ NoDuplicates(th.skipped \o
                    (IF th.webhook = NoWebhook THEN <<>> ELSE <<th.webhook>>))
             /\ IF cov = {}
                THEN /\ th.webhook = NoWebhook
                     /\ th.skipped = [j \in 1 .. N |-> At(j - 1).id]
                     /\ CallsOf(th.req, "rr") = <<>>
                ELSE /\ th.webhook = At(first).id
                     /\ th.skipped = [j \in 1 .. first |-> At(j - 1).id]
                     /\ CallsOf(th.req, "rr") = <<At(first).id>>
                     /\ g.current_index = (((start + first) % N) + 1) % N

\* a returned round-robin dispatch that started from a cursor beyond the
\* eligible list, skipped an endpoint and found the only covered one
C1_Witness ==
    \E t \in DOMAIN threads :
        LET th == threads[t]
            elig == Eligible(groups[th.gid])
        IN /\ Returned(th)
           /\ th.pass = "rr"
           /\ Len(elig) = 3
           /\ th.cur0 >= Len(elig)
           /\ th.skipped # <<>>
           /\ th.webhook # NoWebhook
           /\ Cardinality({i \in 1 .. Len(elig) : CoveredRef(elig[i])}) = 1

-----------------------------------------------------------------------------
(* C4: in Broadcast (sync) mode the mode pass hands to the Sender exactly    *)
(* the enabled, non-fixed, covered endpoints, each once and in list order;   *)
(* every enabled non-fixed endpoint that is not covered is recorded as       *)
(* skipped and is not contacted.                                             *)
C4_BroadcastSet ==
    \A t \in DOMAIN threads :
        LET th == threads[t]
            g == groups[th.gid]
            elig == Eligible(g)
            calls == CallsOf(th.req, "sync")
            skips == SkipsOf(ResultsOf(th), FALSE)
        IN (th.pass = "sync" /\ th.pc \notin {"sync", "send"}) =>
             /\ calls = Ids(SelectSeq(elig, LAMBDA w : CoveredRef(w)))
             /\ skips = Ids(SelectSeq(elig, LAMBDA w : ~CoveredRef(w)))
             /\ Range(skips) \cap {c.id : c \in {d \in Range(sender_log) :
                                                  d.req = th.req}} = {}

\* a returned sync dispatch that reached two endpoints, skipped one that is
\* out of schedule and left a fixed and a disabled endpoint to others
C4_Witness ==
    \E t \in DOMAIN threads :
        LET th == threads[t]
            g == groups[th.gid]
        IN /\ Returned(th)
           /\ th.pass = "sync"
           /\ CallsOf(th.req, "sync") # <<>>
           /\ SkipsOf(ResultsOf(th), FALSE) # <<>>
           /\ \E w \in Range(g.webhooks) : w.enabled /\ w.is_fixed
           /\ th.ret.success

-----------------------------------------------------------------------------
(* C5: in every dispatch that is not filtered, in both modes, the fixed pass *)
(* hands each fixed, enabled, covered endpoint to the Sender, whatever the   *)
(* cursor and the mode pass do; a fixed enabled endpoint out of its schedule *)
(* is recorded as skipped and is not contacted.                              *)
C5_FixedPass ==
    \A t \in DOMAIN threads :
        LET th == threads[t]
            g == groups[th.gid]
            fixed == SelectSeq(g.webhooks, LAMBDA w : w.is_fixed /\ w.enabled)
            calls == CallsOf(th.req, "fixed")
            skips == SkipsOf(ResultsOf(th), TRUE)
        IN (th.pass \in {"sync", "rr"}) =>
             /\ calls = Ids(SelectSeq(fixed, LAMBDA w : CoveredRef(w)))
             /\ skips = Ids(SelectSeq(fixed, LAMBDA w : ~CoveredRef(w)))
             /\ Range(skips) \cap {c.id : c \in {d \in Range(sender_log) :
                                                  d.req = th.req}} = {}

\* a returned round-robin dispatch whose cursor was not 0, which reached a
\* fixed endpoint, skipped another fixed endpoint and selected nothing
C5_Witness ==
    \E t \in DOMAIN threads :
        LET th == threads[t]
            g == groups[th.gid]
        IN /\ Returned(th)
           /\ th.pass = "rr"
           /\ th.cur0 > 0
           /\ CallsOf(th.req, "fixed") # <<>>
           /\ SkipsOf(ResultsOf(th), TRUE) # <<>>
           /\ th.webhook = NoWebhook

-----------------------------------------------------------------------------
(* C6: a message without media whose text holds a noise marker is            *)
(* suppressed: no endpoint is handed to the Sender, the call returns success *)
(* at once, and the step that takes the message adds one history entry       *)
(* marked filtered and changes nothing else of the group: its counters, its  *)
(* endpoints' counters, its cursor and its lock stay as they were.           *)
C6_Suppressed ==
    \A t \in DOMAIN threads :
        LET th == threads[t] IN
        (th.req > 0 /\ th.content = "noise" /\ ~th.image) =>
            /\ Returned(th)
            /\ th.ret = RelayResult(TRUE, "filtered", <<>>)
            /\ \A c \in Range(sender_log) : c.req # th.req

C6_SuppressedStep ==
    \A t \in DOMAIN threads :
        (/\ threads'[t].req # threads[t].req
         /\ threads'[t].content = "noise"
         /\ ~threads'[t].image) =>
            LET gid == threads'[t].gid IN
            /\ Len(groups'[gid].history) = Len(groups[gid].history) + 1
            /\ Head(groups'[gid].history).status = "filtered"
            /\ Tail(groups'[gid].history) = groups[gid].history
            /\ [groups' EXCEPT ![gid].history = groups[gid].history] = groups
            /\ sender_log' = sender_log

C6_NoiseFiltered == [] C6_Suppressed /\ [][C6_SuppressedStep]_vars

\* a noise message without media has been taken for a group that has an
\* enabled endpoint in schedule
C6_Witness ==
    \E t \in DOMAIN threads :
        LET th == threads[t] IN
        /\ th.req > 0 /\ th.content = "noise" /\ ~th.image
        /\ \E w \in Range(groups[th.gid].webhooks) : w.enabled /\ CoveredRef(w)
        /\ groups[th.gid].history # <<>>

-----------------------------------------------------------------------------
(* C2: with N eligible endpoints, all covered, and no admin change, the      *)
(* round-robin dispatches of a run select the eligible endpoints in list     *)
(* order from the starting cursor: any N consecutive dispatches select N     *)
(* different endpoints and the selection repeats with period N.              *)
C2_RoundRobinPeriod ==
    \A gid \in DOMAIN groups :
        LET g == groups[gid]
            elig == Eligible(g)
            N == Len(elig)
            R == SelectSeq(RoundRobinCalls, LAMBDA c : c.gid = gid)
            c0 == IF R = <<>> THEN g.current_index ELSE R[1].cur0
        IN (g.send_mode = MODE_ROUND_ROBIN /\ N >= 1
              /\ \A i \in 1 .. N : CoveredRef(elig[i])) =>
             /\ \A i \in 1 .. Len(R) :
                   R[i].id = elig[((c0 + i - 1) % N) + 1].id
             /\ \A i \in 1 .. Len(R), j \in 1 .. Len(R) :
                   (i < j /\ j < i + N) => R[i].id # R[j].id
             /\ \A i \in 1 .. Len(R) :
                   i + N <= Len(R) => R[i + N].id = R[i].id
             /\ \A i \in 1 .. Len(R) : \E k \in 1 .. N : R[i].id = elig[k].id

\* three eligible endpoints, a starting cursor other than 0, and a fourth
\* dispatch that has come back to the endpoint of the first
C2_Witness ==
    \E gid \in DOMAIN groups :
        LET g == groups[gid]
            R == SelectSeq(RoundRobinCalls, LAMBDA c : c.gid = gid)
        IN /\ g.send_mode = MODE_ROUND_ROBIN
           /\ Len(Eligible(g)) = 3
           /\ Len(R) >= 4
           /\ R[1].cur0 % 3 # 0
           /\ R[4].id = R[1].id
           /\ \A t \in DOMAIN threads : threads[t].pc = "idle"

-----------------------------------------------------------------------------
(* C3: no dispatch, in either mode, hands a disabled endpoint to the Sender, *)
(* fixed or not, and round robin rotates over the enabled non-fixed          *)
(* endpoints only: with [E1 enabled, E2 enabled, E3 disabled], none fixed,   *)
(* round robin and cursor 0, the dispatches hit E1, E2, E1, ... and the      *)
(* cursor goes 0, 1, 0, 1, ...                                               *)
C3_Scenario(g) ==
    /\ g.send_mode = MODE_ROUND_ROBIN
    /\ [i \in 1 .. Len(g.webhooks) |-> g.webhooks[i].enabled]
           = <<TRUE, TRUE, FALSE>>
    /\ \A i \in 1 .. Len(g.webhooks) : ~g.webhooks[i].is_fixed

C3_DisabledNeverSent ==
    \A gid \in DOMAIN groups :
        LET g == groups[gid]
            R == SelectSeq(RoundRobinCalls, LAMBDA c : c.gid = gid)
            c0 == IF R = <<>> THEN g.current_index ELSE R[1].cur0
        IN /\ \A c \in Range(sender_log) :
                 c.gid = gid => WebhookOf(g, c.id).enabled
           /\ (C3_Scenario(g) /\ c0 = 0) =>
                 /\ \A i \in 1 .. Len(R) :
                       /\ R[i].id = g.webhooks[IF i % 2 = 1 THEN 1 ELSE 2].id
                       /\ R[i].cur0 = (i - 1) % 2
                 /\ g.current_index = Len(R) % 2
                 /\ \A c \in Range(sender_log) : c.id # g.webhooks[3].id

\* the scenario after its third dispatch has returned
C3_Witness ==
    \E gid \in DOMAIN groups :
        LET g == groups[gid]
            R == SelectSeq(RoundRobinCalls, LAMBDA c : c.gid = gid)
        IN /\ C3_Scenario(g)
           /\ Len(R) = 3
           /\ R[1].cur0 = 0
           /\ g.current_index = 1
           /\ \A t \in DOMAIN threads : threads[t].pc = "idle"

-----------------------------------------------------------------------------
(* C7: no cursor update is lost.  Whatever way k concurrent round-robin      *)
(* dispatches to one group with N eligible endpoints, all covered, are       *)
(* interleaved, the i-th selection made is the endpoint at position          *)
(* (c + i - 1) mod N, where c is the cursor the run started with; every      *)
(* dispatch makes one selection, and after k selections the cursor is        *)
(* (c + k) mod N.                                                            *)
C7_NoLostCursorUpdate ==
    \A gid \in DOMAIN groups :
        LET g == groups[gid]
            elig == Eligible(g)
            N == Len(elig)
            R == SelectSeq(RoundRobinCalls, LAMBDA c : c.gid = gid)
            k == Len(R)
            c0 == R[1].cur0
        IN (g.send_mode = MODE_ROUND_ROBIN /\ N >= 1 /\ k >= 1
              /\ \A i \in 1 .. N : CoveredRef(elig[i])) =>
             /\ \A i \in 1 .. k : R[i].id = elig[((c0 + i - 1) % N) + 1].id
             /\ \A i \in 1 .. k, j \in 1 .. k : i # j => R[i].req # R[j].req
             /\ g.current_index = (c0 + k) % N
             /\ (\A t \in DOMAIN threads : threads[t].pc = "idle")
                    => k = quota.passed

\* two workers have both returned from a round-robin dispatch over three
\* eligible endpoints that started from the largest cursor, and the request
\* that arrived second took the lock first
C7_Witness ==
    \E gid \in DOMAIN groups :
        LET g == groups[gid]
            R == SelectSeq(RoundRobinCalls, LAMBDA c : c.gid = gid)
        IN /\ g.send_mode = MODE_ROUND_ROBIN
           /\ Len(Eligible(g)) = 3
           /\ Len(R) = 2
           /\ R[1].cur0 = MaxCursor
           /\ g.current_index = (MaxCursor + 2) % 3
           /\ \A t \in DOMAIN threads : Returned(threads[t])
           /\ R[1].req = 2
           /\ R[2].req = 1

-----------------------------------------------------------------------------
(* C8: no counter update is lost.  Once k concurrent dispatches that were    *)
(* not filtered have all returned, the group's received counter is k and its *)
(* delivered and failed counters are the numbers of Sender calls of those    *)
(* dispatches that succeeded and that failed.                                *)
C8_NoCounterRace ==
    \A gid \in DOMAIN groups :
        LET g == groups[gid]
            calls == SelectSeq(sender_log, LAMBDA c : c.gid = gid)
        IN (\A t \in DOMAIN threads : threads[t].pc = "idle") =>
             /\ g.stats.received = quota.passed
             /\ g.stats.total_sent =
                    Len(SelectSeq(calls, LAMBDA c : c.answer = "ok"))
             /\ g.stats.total_failed =
                    Len(SelectSeq(calls, LAMBDA c : c.answer = "fail"))

-----------------------------------------------------------------------------
(* What the store properties read *)

\* what the admin console can change of a group: its mode and, per webhook,
\* the name, the flags and the schedule
AdminView(g) ==
    [send_mode |-> g.send_mode,
     webhooks |-> [i \in 1 .. Len(g.webhooks) |->
                     [id |-> g.webhooks[i].id, name |-> g.webhooks[i].name,
                      enabled |-> g.webhooks[i].enabled,
                      is_fixed |-> g.webhooks[i].is_fixed,
                      schedule_mode |-> g.webhooks[i].schedule_mode,
                      schedules |-> g.webhooks[i].schedules]]]

\* a Sender call made by a dispatch to group gid has not returned
SenderBusy(gid) ==
    \E c \in Range(sender_log) : c.gid = gid /\ c.answer = "pending"

\* the positions of relay_message inside `with self.lock`
LockedPcs == {"fixed", "sync", "rr_walk", "send", "unlock"}

-----------------------------------------------------------------------------
(* C9: dispatches to different groups do not wait for each other, while a    *)
(* Sender call that has not returned keeps every other dispatch to its group *)
(* out of the locked section and keeps every admin mutation of its group     *)
(* from taking effect: in a step taken while the call is out, no other       *)
(* thread enters the locked section of that group and the group's mode and   *)
(* its webhooks' names, flags and schedules do not change.                   *)
C9_Step ==
    \A gid \in DOMAIN groups :
        SenderBusy(gid) =>
            /\ AdminView(groups'[gid]) = AdminView(groups[gid])
            /\ \A t \in DOMAIN threads :
                  (threads'[t].gid = gid /\ threads'[t].pc \in LockedPcs) =>
                      (threads[t].gid = gid /\ threads[t].pc \in LockedPcs)

C9_GroupIsolation == [][C9_Step]_vars

-----------------------------------------------------------------------------
(* C10: at every instant, a crash at any step of the write procedure         *)
(* included, the durable file exists and holds the whole text of one         *)
(* rendered snapshot, never a part of one.                                   *)
C10_DurableComplete ==
    /\ files.durable # 0
    /\ Complete(inodes[files.durable])

-----------------------------------------------------------------------------
(* Schedules of every shape *)

\* the largest time label of the day
MaxLabel == 2

Labels == 0 .. MaxLabel
Dates == {0, 1}
Instants == [date : Dates, time : Labels]
Windows == [date : Dates, start_time : Labels, end_time : Labels]

\* the window collections of at most two windows
WindowLists ==
    {<<>>} \cup {<<w>> : w \in Windows}
           \cup {<<w1, w2>> : w1 \in Windows, w2 \in Windows}

\* one message to a group of a fixed and a rotating webhook that carry the
\* same schedule, at any instant
InitSchedule ==
    /\ \E schedule_mode \in {"off", "date_range"}, schedules \in WindowLists :
       \E send_mode \in {MODE_SYNC, MODE_ROUND_ROBIN} :
          groups = [gid \in {"a"} |->
              BossGroup(<<WebhookItem("w1", "discord", TRUE, TRUE,
                                      schedule_mode, schedules),
                          WebhookItem("w2", "feishu", TRUE, FALSE,
                                      schedule_mode, schedules)>>,
                        send_mode, 0)]
    /\ threads = [t \in {1} |-> IdleThread]
    /\ now \in Instants
    /\ sender_log = <<>>
    /\ quota = Quota(1, 0, 0, 0)
    /\ InitStore

SpecSchedule == InitSchedule /\ [][Next]_vars

\* the coverage rule as the data model states it
C16_Reference(wh, at) ==
    \/ wh.schedule_mode = "off"
    \/ \E w \in Range(wh.schedules) :
          /\ w.date = at.date
          /\ \/ w.start_time <= w.end_time
                /\ w.start_time <= at.time /\ at.time <= w.end_time
             \/ w.start_time > w.end_time
                /\ (at.time >= w.start_time \/ at.time <= w.end_time)

-----------------------------------------------------------------------------
(* C16: for every endpoint and every instant is_in_schedule equals the       *)
(* reference rule (true when the schedule is off; otherwise true iff some    *)
(* window is dated today and holds the time, a window whose start is after   *)
(* its end holding the times from its start on and the times up to its end); *)
(* and a dispatch hands an endpoint to the Sender when the rule covers now   *)
(* and records it as skipped when it does not.                               *)
C16_IsCoveredReference ==
    /\ \A gid \in DOMAIN groups : \A wh \in Range(groups[gid].webhooks) :
       \A at \in Instants :
          is_in_schedule(wh, at) <=> C16_Reference(wh, at)
    /\ \A t \in DOMAIN threads :
          Returned(threads[t]) =>
             \A r \in Range(ResultsOf(threads[t])) :
                r.skipped <=>
                   ~C16_Reference(WebhookOf(groups[threads[t].gid], r.id), now)

\* a window dated today that starts at the last label and ends at the
\* first: a dispatch at the last label and one at the first label reach the
\* Sender, one at a label between them is skipped (the witness is the first)
C16_Witness ==
    \E t \in DOMAIN threads :
       LET th == threads[t]
           wh == WebhookOf(groups[th.gid], "w2")
       IN
       /\ Returned(th)
       /\ wh.schedule_mode = "date_range"
       /\ wh.schedules = <<[date |-> 1 - now.date, start_time |-> 0,
                            end_time |-> MaxLabel],
                           [date |-> now.date, start_time |-> MaxLabel,
                            end_time |-> 0]>>
       /\ now.time = 0
       /\ \E r \in Range(ResultsOf(th)) : r.id = "w2" /\ ~r.skipped
       /\ ~is_in_schedule(wh, [date |-> now.date, time |-> 1])
       /\ is_in_schedule(wh, [date |-> now.date, time |-> MaxLabel])

-----------------------------------------------------------------------------
(* Scheduled saves as time passes *)

\* the requests that schedule a save, the timer's write, and the clock
NextDebounce ==
    \/ \E gid \in DOMAIN groups, i \in 1 .. Len(WebhookIds), en \in BOOLEAN :
          toggle_webhook(gid, WebhookIds[i], en)
    \/ \E t \in DOMAIN threads : SaveRender(t)
    \/ \E t \in DOMAIN threads : SaveOpen(t)
    \/ \E t \in DOMAIN threads : SaveWrite(t)
    \/ \E t \in DOMAIN threads : SaveReplace(t)
    \/ Tick

\* one group, and one admin request more than in the other specifications
InitDebounce ==
    /\ groups = [gid \in {"a"} |->
                    BossGroup(SampleWebhooks(AllFlags, NoFlags, NoFlags),
                              MODE_SYNC, 0)]
    /\ threads = [t \in 1 .. NumWorkers + 1 |-> IdleThread]
    /\ now = [date |-> 0, time |-> 0]
    /\ sender_log = <<>>
    /\ quota = Quota(0, 0, 0, MaxAdmin + 1)
    /\ InitStore

\* time passes, and a timer whose delay is over runs its function
SpecDebounce ==
    /\ InitDebounce
    /\ [][NextDebounce]_vars
    /\ WF_vars(Tick)
    /\ \A t \in 1 .. NumWorkers + 1 : WF_vars(SaveRender(t))

\* the last entry of the log
LastLogged == store_log[Len(store_log)]
LastIs(kind) == store_log # <<>> /\ LastLogged.kind = kind

\* every write the timer started follows a request directly and starts no
\* sooner than the delay after it; while the last request has no write yet
\* its timer is waiting
C11_OneWritePerBurst ==
    /\ \A i \in 1 .. Len(store_log) :
          store_log[i].kind = "write" =>
             /\ i > 1
             /\ store_log[i - 1].kind = "request"
             /\ store_log[i].at >= store_log[i - 1].at + Debounce
    /\ LastIs("request") =>
          /\ TimerWaiting(threads, save_timer)
          /\ threads[save_timer].due = LastLogged.at + Debounce
          /\ \A t \in DOMAIN threads :
                threads[t].pc = "timer_wait" => t = save_timer

\* the step in which the timer starts its write renders the state as it is
C11_WriteStep ==
    \A t \in DOMAIN threads :
       (threads[t].pc = "timer_wait" /\ threads'[t].pc # "timer_wait") =>
          /\ clock >= threads[t].due
          /\ threads'[t].snap = <<Snapshot(creds, groups, now)>>
          /\ store_log' =
                Append(store_log, TimerWrite(Snapshot(creds, groups, now)))

-----------------------------------------------------------------------------
(* C11: requests to schedule a save that follow each other by less than the  *)
(* delay of the timer (2 s) have no write between them and are followed by   *)
(* exactly one write of the timer: it starts after the last of them, no      *)
(* sooner than the delay, it comes, and it renders the configuration as it   *)
(* is in memory when it starts.                                              *)
C11_Debounce ==
    /\ []C11_OneWritePerBurst
    /\ [][C11_WriteStep]_vars
    /\ LastIs("request") ~> LastIs("write")

\* two requests one second apart, then one write, two seconds after the
\* second request, that holds what both requests changed
C11_Witness ==
    /\ Len(store_log) = 3
    /\ store_log[1].kind = "request" /\ store_log[2].kind = "request"
    /\ store_log[2].at = store_log[1].at + 1
    /\ store_log[3].kind = "write"
    /\ store_log[3].at = store_log[2].at + Debounce
    /\ ~store_log[3].snap.groups["a"].webhooks[1].enabled
    /\ ~store_log[3].snap.groups["a"].webhooks[2].enabled

-----------------------------------------------------------------------------
(* Every admin operation that changes the configuration *)

\* the admin operations, the steps of the ones that take several, the write
\* procedure and the clock
NextConfig ==
    \/ \E gid \in DOMAIN groups, i \in 1 .. Len(WebhookIds), en \in BOOLEAN :
          toggle_webhook(gid, WebhookIds[i], en)
    \/ \E gid \in DOMAIN groups, mode \in {MODE_SYNC, MODE_ROUND_ROBIN} :
          set_send_mode(gid, mode)
    \/ \E gid \in DOMAIN groups, is_fixed \in BOOLEAN :
          add_webhook(gid, WebhookIds[Len(WebhookIds)], "feishu", is_fixed)
    \/ \E gid \in DOMAIN groups, i \in 1 .. Len(WebhookIds) :
          remove_webhook(gid, WebhookIds[i])
    \/ \E gid \in DOMAIN groups, i \in 1 .. Len(WebhookIds),
          is_fixed \in BOOLEAN :
          toggle_webhook_fixed(gid, WebhookIds[i], is_fixed)
    \/ \E gid \in DOMAIN groups, i \in 1 .. Len(WebhookIds) :
          update_webhook(gid, WebhookIds[i], "renamed")
    \/ \E group_id \in {"C", "c!"}, display_name \in {"", "named"} :
          create_group(group_id, display_name)
    \/ \E gid \in DOMAIN groups : delete_group(gid)
    \/ \E t \in DOMAIN threads, c \in CredentialRequests :
          update_feishu_credentials(t, c.app_id, c.app_secret)
    \/ \E t \in DOMAIN threads : CredGlobals(t)
    \/ \E t \in DOMAIN threads : CredUploader(t)
    \/ \E t \in DOMAIN threads : CredReset(t)
    \/ \E t \in DOMAIN threads : CredSave(t)
    \/ \E t \in DOMAIN threads, gid \in DOMAIN groups,
          i \in 1 .. Len(WebhookIds), data \in ScheduleRequests :
          set_webhook_schedule(t, gid, WebhookIds[i], data)
    \/ \E t \in DOMAIN threads : SetScheduleWindows(t)
    \/ \E t \in DOMAIN threads : SaveRender(t)
    \/ \E t \in DOMAIN threads : SaveOpen(t)
    \/ \E t \in DOMAIN threads : SaveWrite(t)
    \/ \E t \in DOMAIN threads : SaveReplace(t)
    \/ Tick

\* the steps a thread takes once its handler or its timer has started
Continue(t) ==
    \/ CredGlobals(t) \/ CredUploader(t) \/ CredReset(t) \/ CredSave(t)
    \/ SetScheduleWindows(t)
    \/ SaveRender(t) \/ SaveOpen(t) \/ SaveWrite(t) \/ SaveReplace(t)

\* one group of two webhooks, the second one fixed, and MaxAdmin requests
InitConfig ==
    /\ groups = [gid \in {"a"} |->
                    BossGroup(SubSeq(SampleWebhooks(AllFlags, SecondFlag,
                                                    NoFlags), 1, 2),
                              MODE_ROUND_ROBIN, 1)]
    /\ threads = [t \in 1 .. NumWorkers + 1 |-> IdleThread]
    /\ now = [date |-> 0, time |-> 0]
    /\ sender_log = <<>>
    /\ quota = Quota(0, 0, 0, MaxAdmin)
    /\ InitStore

\* time passes and every thread that has something to do goes on
SpecConfig ==
    /\ InitConfig
    /\ [][NextConfig]_vars
    /\ WF_vars(Tick)
    /\ \A t \in 1 .. NumWorkers + 1 : WF_vars(Continue(t))

\* the durable file holds the whole text of a snapshot of the groups and the
\* credentials as they are in memory
DurableIsCurrent ==
    /\ files.durable # 0
    /\ Complete(inodes[files.durable])
    /\ LET snap == inodes[files.durable][1].snap
           mem == Snapshot(creds, groups, now)
       IN /\ snap.groups = mem.groups
          /\ snap.feishu_credentials = mem.feishu_credentials

-----------------------------------------------------------------------------
(* C12: every admin operation that changes the configuration schedules or    *)
(* performs a save, so from some instant on (the admin operations of a run   *)
(* are finitely many) the durable snapshot equals the configuration in       *)
(* memory.                                                                   *)
C12_EventuallyDurable == <>[]DurableIsCurrent

-----------------------------------------------------------------------------
(* Loading the configuration *)

\* dict.get(key, default); a key that is absent and a value None are one case
Get(data, key, default) == IF key \in DOMAIN data THEN data[key] ELSE default

\* a JSON value that is not an object, where the loader expects one
JsonNull == [json |-> "null"]
IsDict(data) == "json" \notin DOMAIN data

\* the last time label of a day: '23:59'
EndOfDay == MaxLabel

\* WebhookItem._generate_default_name
_generate_default_name(webhook_type) ==
    CASE webhook_type = "discord" -> "Discord-now"
      [] webhook_type = "feishu" -> "Feishu-now"
      [] webhook_type = "wecom" -> "Wecom-now"
      [] OTHER -> "Webhook-now"

\* the entry is in the form of v4.4: schedule_enabled is set and there are no
\* windows
IsLegacy(data) ==
    Get(data, "schedule_enabled", FALSE) /\ Get(data, "schedules", <<>>) = <<>>

\* a conversion that dates the window of a v4.4 entry with the first day
LegacyWindow_FirstDay(data, at) ==
    [date |-> 0,
     start_time |-> Get(data, "schedule_start", 0),
     end_time |-> Get(data, "schedule_end", EndOfDay)]

\* the window from_dict makes of a v4.4 entry: today's date, and the start
\* and the end of the entry, or '00:00' and '23:59'
LegacyWindow(data, at) ==
    [date |-> at.date,
     start_time |-> Get(data, "schedule_start", 0),
     end_time |-> Get(data, "schedule_end", EndOfDay)]

\* WebhookItem.from_dict at the local time `at`, with the defaults of
\* from_dict and of __init__; an id that is missing is made from the url
WebhookItem_from_dict(data, at) ==
    LET legacy == IsLegacy(data)
        url == Get(data, "url", "")
        type == Get(data, "type", "discord")
        id == Get(data, "id", "")
        name == Get(data, "name", "")
    IN
    [id |-> IF id = "" THEN url ELSE id,
     name |-> IF name = "" THEN _generate_default_name(type) ELSE name,
     url |-> url, type |-> type,
     enabled |-> Get(data, "enabled", TRUE),
     is_fixed |-> Get(data, "is_fixed", FALSE),
     schedule_mode |-> IF legacy THEN "date_range"
                       ELSE Get(data, "schedule_mode", "off"),
     schedules |-> IF legacy
                   THEN <<LegacyWindow(data, at)>>
                   ELSE Get(data, "schedules", <<>>),
     stats |-> Get(data, "stats", [sent |-> 0, failed |-> 0]),
     created_at |-> Get(data, "created_at", at)]

\* BossGroup.from_dict
BossGroup_from_dict(group_id, data, at) ==
    LET whs == Get(data, "webhooks", <<>>) IN
    [BossGroup([i \in 1 .. Len(whs) |-> WebhookItem_from_dict(whs[i], at)],
               Get(data, "send_mode", MODE_SYNC),
               Get(data, "current_index", 0))
       EXCEPT !.display_name =
                 DisplayName(group_id, Get(data, "display_name", ""))]

\* from_dict raises on this entry: the entry, or one of its webhooks, is not
\* an object
Readable(data) ==
    /\ IsDict(data)
    /\ \A i \in 1 .. Len(Get(data, "webhooks", <<>>)) : IsDict(data.webhooks[i])

\* the compiled-in groups
PRESET_WEBHOOKS ==
    [gid \in {"a", "b"} |->
        IF gid = "a"
        THEN [display_name |-> "preset a", send_mode |-> MODE_SYNC,
              webhooks |-> <<[name |-> "w1", url |-> "w1", type |-> "discord",
                              enabled |-> TRUE, is_fixed |-> FALSE],
                             [name |-> "w2", url |-> "w2", type |-> "feishu",
                              enabled |-> TRUE, is_fixed |-> FALSE]>>]
        ELSE [display_name |-> "preset b", send_mode |-> MODE_SYNC,
              webhooks |-> <<[name |-> "w3", url |-> "w3", type |-> "discord",
                              enabled |-> TRUE, is_fixed |-> FALSE]>>]]

\* the group _load_config builds from a preset at the local time `at`; every
\* preset webhook has a url
SeedGroup(group_id, at) ==
    LET preset == PRESET_WEBHOOKS[group_id]
        whs == preset.webhooks
    IN
    [BossGroup([i \in 1 .. Len(whs) |->
                   [WebhookItem(whs[i].url, Get(whs[i], "type", "discord"),
                                Get(whs[i], "enabled", TRUE),
                                Get(whs[i], "is_fixed", FALSE), "off", <<>>)
                      EXCEPT !.name = whs[i].name, !.created_at = at]],
               Get(preset, "send_mode", MODE_SYNC), 0)
       EXCEPT !.display_name = DisplayName(group_id, preset.display_name)]

\* the groups of the seed configuration
SeedGroups(at) == [gid \in DOMAIN PRESET_WEBHOOKS |-> SeedGroup(gid, at)]

\* the order in which a file lists its groups
GroupOrder == <<"a", "b", "c", "default">>

\* json.load reads the file: the file exists and holds the whole text of one
\* snapshot
Parses(exists, content) == exists /\ Complete(content)

\* _load_config up to the seed: the credentials are read first, then the
\* groups one by one until one raises; when anything raised, or there was no
\* file, the presets are put into the table, beside what was read
_load_config(exists, content, at) ==
    LET parsed == Parses(exists, content)
        config == IF parsed THEN content[1].snap ELSE [groups |-> <<>>]
        hasCreds == "feishu_credentials" \in DOMAIN config
        c == IF hasCreds
             THEN [app_id |-> Get(config.feishu_credentials, "app_id",
                                  DefaultCredentials.app_id),
                   app_secret |-> Get(config.feishu_credentials, "app_secret",
                                      DefaultCredentials.app_secret)]
             ELSE DefaultCredentials
        fg == Get(config, "groups", <<>>)
        listed == {i \in 1 .. Len(GroupOrder) : GroupOrder[i] \in DOMAIN fg}
        bad == {i \in listed : ~Readable(fg[GroupOrder[i]])}
        read == {GroupOrder[i] : i \in {j \in listed : \A b \in bad : j < b}}
        loaded == parsed /\ bad = {}
        fromFile == [gid \in read |-> BossGroup_from_dict(gid, fg[gid], at)]
    IN
    [loaded |-> loaded,
     creds |-> c,
     feishu |-> IF hasCreds
                THEN [FeishuImageUploader EXCEPT
                         !.app_id = c.app_id, !.app_secret = c.app_secret,
                         !.FEISHU_APP_ID = c.app_id,
                         !.FEISHU_APP_SECRET = c.app_secret]
                ELSE FeishuImageUploader,
     groups |-> IF loaded THEN fromFile
                ELSE [gid \in read \cup DOMAIN PRESET_WEBHOOKS |->
                         IF gid \in DOMAIN PRESET_WEBHOOKS
                         THEN SeedGroup(gid, at) ELSE fromFile[gid]]]

\* a start that never writes the seed
WritesSeed_Never(loaded, ok) == FALSE

\* `if not loaded:` ends with self._save_config_sync(): the seed is written
\* when nothing was loaded, unless an I/O error stops the write
WritesSeed(loaded, ok) == ~loaded /\ ok

\* what store_log records of a start of the process
LoadEntry(loaded, saved) ==
    [kind |-> "load", at |-> clock, loaded |-> loaded, saved |-> saved]

\* manager = WebhookRelayManager(), when the module is imported and before the
\* server takes a request: _load_config and, when nothing was loaded, the
\* write of the seed by _save_config_sync, which an I/O error may stop
Startup ==
    LET exists == files.durable # 0
        content == IF exists THEN inodes[files.durable] ELSE EmptyFile
        r == _load_config(exists, content, now)
        text == WholeFile(Snapshot(r.creds, r.groups, now))
    IN
    /\ ~alive
    /\ quota.boot > 0
    /\ alive' = TRUE
    /\ groups' = r.groups
    /\ creds' = r.creds
    /\ feishu' = r.feishu
    /\ threads' = [t \in DOMAIN threads |-> IdleThread]
    /\ save_timer' = NoThread
    /\ \E ok \in IF quota.io > 0 /\ ~r.loaded THEN BOOLEAN ELSE {TRUE} :
          /\ quota' = [quota EXCEPT !.boot = @ - 1,
                                    !.io = IF ok THEN @ ELSE @ - 1]
          /\ store_log' = Append(store_log,
                                 LoadEntry(r.loaded, WritesSeed(r.loaded, ok)))
          /\ IF ~WritesSeed(r.loaded, ok)
             THEN UNCHANGED <<files, inodes>>
             ELSE IF files.tmp = 0
                  THEN /\ inodes' = Append(inodes, text)
                       /\ files' = [durable |-> Len(inodes) + 1, tmp |-> 0]
                  ELSE /\ inodes' = [inodes EXCEPT ![files.tmp] = text]
                       /\ files' = [durable |-> files.tmp, tmp |-> 0]
    /\ UNCHANGED <<now, sender_log, clock, net_log>>

\* what store_log records of a write that an I/O error has stopped
FailedWrite_Entry == [kind |-> "failed", at |-> clock]

\* open, json.dump or os.replace raises OSError in _save_config_sync: the
\* handler logs the error and returns; what has reached the temporary file
\* stays there
SaveFail(t) ==
    LET th == threads[t] IN
    /\ alive
    /\ quota.io > 0
    /\ th.pc \in {"save_open", "save_write", "save_replace"}
    /\ threads' = [threads EXCEPT ![t] =
           [IdleThread EXCEPT !.gid = th.gid, !.target = th.target,
               !.ret = [kind |-> "save", success |-> FALSE]]]
    /\ quota' = [quota EXCEPT !.io = @ - 1]
    /\ store_log' = Append(store_log, FailedWrite_Entry)
    /\ UNCHANGED <<groups, now, sender_log, storeVars, clock, feishuVars>>

-----------------------------------------------------------------------------
(* The process starts, runs, is killed and starts again *)

\* credentials a file may hold
FileCredentials == [app_id |-> "id1", app_secret |-> "secret1"]

\* a configuration a run has left: counters that have counted, a cursor, a
\* schedule, a group the console has made
SampleGroups ==
    [gid \in {"a", "c"} |->
        IF gid = "a"
        THEN BossGroup([i \in 1 .. 2 |->
                          [SampleWebhooks(FirstFlags, SecondFlag, FirstFlags)[i]
                             EXCEPT !.stats = [sent |-> i, failed |-> 2 - i]]],
                       MODE_ROUND_ROBIN, 1)
        ELSE [BossGroup(<<>>, MODE_SYNC, 0) EXCEPT !.display_name = "C BOSS"]]

\* entries in the form of v4.4, and entries that are not, with the fields
\* the form allows
LegacyEntries ==
    <<[id |-> "w1", name |-> "w1", url |-> "w1", type |-> "discord",
       enabled |-> TRUE, is_fixed |-> FALSE, schedule_enabled |-> TRUE,
       schedule_start |-> 1, schedule_end |-> 2],
      [id |-> "w2", name |-> "w2", url |-> "w2", type |-> "feishu",
       enabled |-> TRUE, is_fixed |-> FALSE, schedule_enabled |-> TRUE],
      [id |-> "w3", name |-> "w3", url |-> "w3", type |-> "wecom",
       enabled |-> FALSE, is_fixed |-> FALSE, schedule_enabled |-> FALSE,
       schedule_start |-> 1, schedule_end |-> 2]>>

\* a file of v4.4: no credentials, one group of entries in the old form
LegacySnapshot ==
    [version |-> "4.4",
     groups |-> [gid \in {"a"} |->
                    [display_name |-> "old", send_mode |-> MODE_SYNC,
                     current_index |-> 0, webhooks |-> LegacyEntries]]]

\* a file whose second group is not an object
BrokenSnapshot(at) ==
    [version |-> "4.5", updated_at |-> at,
     feishu_credentials |-> FileCredentials,
     groups |-> [gid \in {"a", "b", "c"} |->
                    IF gid = "b" THEN JsonNull
                    ELSE BossGroup_to_save_dict(SampleGroups[IF gid = "a"
                                                             THEN "a" ELSE "c"])]]

\* the files the process may find when it starts
SampleFiles(at) ==
    {EmptyFile,
     [WholeFile(Snapshot(FileCredentials, SampleGroups, at))
        EXCEPT ![FileParts] = NoPiece],
     WholeFile(Snapshot(FileCredentials, SampleGroups, at)),
     WholeFile(LegacySnapshot),
     WholeFile(BrokenSnapshot(at))}

\* the starts, the requests of the console, the write procedure with its
\* failures, the clock and the kill; the process is killed only when it will
\* be started again
NextBoot ==
    \/ Startup
    \/ Crash /\ quota.boot > 0
    \/ \E gid \in DOMAIN groups : toggle_webhook(gid, WebhookIds[1], FALSE)
    \/ \E gid \in DOMAIN groups : update_webhook(gid, WebhookIds[2], "renamed")
    \/ \E t \in DOMAIN threads : SaveRender(t)
    \/ \E t \in DOMAIN threads : SaveOpen(t)
    \/ \E t \in DOMAIN threads : SaveWrite(t)
    \/ \E t \in DOMAIN threads : SaveReplace(t)
    \/ \E t \in DOMAIN threads : SaveFail(t)
    \/ Tick

\* the process has not started yet, on the second day; there is no file, or
\* one of the sample files
InitBoot ==
    /\ alive = FALSE
    /\ now = [date |-> 1, time |-> 0]
    /\ \/ files = [durable |-> 0, tmp |-> 0] /\ inodes = <<>>
       \/ /\ files = [durable |-> 1, tmp |-> 0]
          /\ \E f \in SampleFiles(now) : inodes = <<f>>
    /\ groups = <<>>
    /\ creds = DefaultCredentials
    /\ feishu = FeishuImageUploader
    /\ threads = [t \in 1 .. NumWorkers |-> IdleThread]
    /\ save_timer = NoThread
    /\ sender_log = <<>>
    /\ net_log = <<>>
    /\ store_log = <<>>
    /\ clock = 0
    /\ quota = [Quota(0, 0, 0, 2) EXCEPT !.boot = 2, !.io = 1]

SpecBoot == InitBoot /\ [][NextBoot]_vars

\* two tables of groups agree on the ids, the display names, the modes, the
\* cursors and, webhook by webhook in order, on the ids, the names, the kinds,
\* the addresses, the flags, the schedules and the counters
SameConfiguration(gs1, gs2) ==
    /\ DOMAIN gs1 = DOMAIN gs2
    /\ \A gid \in DOMAIN gs1 :
          LET g1 == gs1[gid]
              g2 == gs2[gid]
          IN /\ g1.display_name = g2.display_name
             /\ g1.send_mode = g2.send_mode
             /\ g1.current_index = g2.current_index
             /\ Len(g1.webhooks) = Len(g2.webhooks)
             /\ \A i \in 1 .. Len(g1.webhooks) :
                   LET w1 == g1.webhooks[i]
                       w2 == g2.webhooks[i]
                   IN /\ w1.id = w2.id /\ w1.name = w2.name
                      /\ w1.type = w2.type /\ w1.url = w2.url
                      /\ w1.enabled = w2.enabled /\ w1.is_fixed = w2.is_fixed
                      /\ w1.schedule_mode = w2.schedule_mode
                      /\ w1.schedules = w2.schedules
                      /\ w1.stats = w2.stats

-----------------------------------------------------------------------------
(* C13: a save followed by a load is a round trip: whatever configuration    *)
(* the process has in memory, loading (at any later time) the whole file a   *)
(* save of it writes succeeds and gives the same group ids, display names,   *)
(* modes and cursors and, for each group, the same webhooks in the same      *)
(* order with the same ids, names, kinds, addresses, flags, schedule windows *)
(* and sent/failed counters.                                                 *)
C13_RoundTrip ==
    alive =>
       \A at \in Clock :
          LET r == _load_config(TRUE, WholeFile(Snapshot(creds, groups, now)), at)
          IN /\ r.loaded
             /\ SameConfiguration(r.groups, groups)

\* the process was started again and has loaded the file a timer of the run
\* before had written: the new name of the second webhook came back, with the
\* counters, the cursor and the schedule of the group
C13_Witness ==
    /\ alive
    /\ store_log # <<>>
    /\ LastLogged.kind = "load" /\ LastLogged.loaded
    /\ \E i \in 1 .. Len(store_log) :
          /\ store_log[i].kind = "write"
          /\ inodes[files.durable][1].snap = store_log[i].snap
    /\ "a" \in DOMAIN groups
    /\ groups["a"].webhooks[2].name = "renamed"
    /\ groups["a"].webhooks[2].stats.sent = 2
    /\ groups["a"].current_index = 1
    /\ groups["a"].webhooks[1].schedules # <<>>

-----------------------------------------------------------------------------
(* C14: a start of the process that finds no durable file, or one json.load  *)
(* cannot parse, does not fail: the manager comes up with exactly the        *)
(* compiled-in groups and the default credentials, and, unless the write     *)
(* itself meets an I/O error, the durable file holds the whole snapshot of   *)
(* that seed before any request is taken.  A start that parses the file but  *)
(* cannot read one of its groups also comes up, with every compiled-in group *)
(* as compiled in and the snapshot of its memory written.                    *)
C14_StartStep ==
    (~alive /\ alive') =>
       LET exists == files.durable # 0
           content == IF exists THEN inodes[files.durable] ELSE EmptyFile
           failed == ~_load_config(exists, content, now).loaded
           ioError == quota'.io < quota.io
       IN failed =>
            /\ \A gid \in DOMAIN PRESET_WEBHOOKS :
                  gid \in DOMAIN groups' /\ groups'[gid] = SeedGroup(gid, now)
            /\ ~Parses(exists, content) =>
                  /\ groups' = SeedGroups(now)
                  /\ creds' = DefaultCredentials
            /\ \A t \in DOMAIN threads : threads'[t] = IdleThread
            /\ quota'.admin = quota.admin
            /\ IF ioError THEN UNCHANGED <<files, inodes>>
               ELSE /\ files'.durable # 0 /\ files'.tmp = 0
                    /\ inodes'[files'.durable] =
                          WholeFile(Snapshot(creds', groups', now))

C14_SeedOnStart == [][C14_StartStep]_vars

\* the process has started on a file that was cut short, serves the two
\* compiled-in groups and has written them
C14_Witness ==
    /\ alive
    /\ Len(store_log) = 1
    /\ ~store_log[1].loaded /\ store_log[1].saved
    /\ ~Complete(inodes[1])
    /\ inodes[1] # EmptyFile
    /\ DOMAIN groups = {"a", "b"}
    /\ files.durable = 2
    /\ inodes[2] = WholeFile(Snapshot(DefaultCredentials, SeedGroups(now), now))

-----------------------------------------------------------------------------
(* A write of the snapshot meets an I/O error *)

\* a request that schedules a save, the write procedure, its failure, the
\* clock
NextRetry ==
    \/ \E gid \in DOMAIN groups, en \in BOOLEAN :
          toggle_webhook(gid, WebhookIds[1], en)
    \/ \E t \in DOMAIN threads : SaveRender(t)
    \/ \E t \in DOMAIN threads : SaveOpen(t)
    \/ \E t \in DOMAIN threads : SaveWrite(t)
    \/ \E t \in DOMAIN threads : SaveReplace(t)
    \/ \E t \in DOMAIN threads : SaveFail(t)
    \/ Tick

\* one group, MaxAdmin requests, one I/O error
InitRetry ==
    /\ groups = [gid \in {"a"} |->
                    BossGroup(SampleWebhooks(AllFlags, NoFlags, NoFlags),
                              MODE_SYNC, 0)]
    /\ threads = [t \in 1 .. NumWorkers |-> IdleThread]
    /\ now = [date |-> 0, time |-> 0]
    /\ sender_log = <<>>
    /\ quota = [Quota(0, 0, 0, MaxAdmin) EXCEPT !.io = 1]
    /\ InitStore

\* time passes, a timer whose delay is over runs its function and a write
\* that has started goes on; whether a file operation fails is up to the
\* environment
SpecRetry ==
    /\ InitRetry
    /\ [][NextRetry]_vars
    /\ WF_vars(Tick)
    /\ \A t \in 1 .. NumWorkers :
          WF_vars(SaveRender(t) \/ SaveOpen(t) \/ SaveWrite(t) \/ SaveReplace(t))

-----------------------------------------------------------------------------
(* C15: a write of the snapshot that an I/O error has stopped is tried       *)
(* again: after the failure, a timer starts a write.                         *)
C15_Retried == LastIs("failed") ~> LastIs("write")

-----------------------------------------------------------------------------
(* C17: a webhook the file holds in the form of v4.4 (schedule_enabled set,  *)
(* one start and one end, no list of windows) is loaded with its schedule    *)
(* on and exactly one window, dated with the day of the load, from the old   *)
(* start to the old end; and no snapshot the program writes holds a webhook  *)
(* in that form, so after a save it is never converted again.                *)
C17_OldForm(data) ==
    /\ "schedule_enabled" \in DOMAIN data /\ data.schedule_enabled
    /\ "schedule_start" \in DOMAIN data /\ "schedule_end" \in DOMAIN data
    /\ "schedules" \notin DOMAIN data

C17_LoadStep ==
    (~alive /\ alive' /\ LastLogged'.loaded) =>
       LET fg == inodes[files.durable][1].snap.groups IN
       \A gid \in DOMAIN fg :
          \A i \in 1 .. Len(fg[gid].webhooks) :
             LET data == fg[gid].webhooks[i]
                 wh == groups'[gid].webhooks[i]
             IN C17_OldForm(data) =>
                   /\ wh.schedule_mode = "date_range"
                   /\ wh.schedules =
                         <<[date |-> now.date,
                            start_time |-> data.schedule_start,
                            end_time |-> data.schedule_end]>>

C17_NeverOldFormAgain ==
    alive =>
       LET snap == Snapshot(creds, groups, now) IN
       \A gid \in DOMAIN snap.groups :
          \A i \in 1 .. Len(snap.groups[gid].webhooks) :
             LET data == snap.groups[gid].webhooks[i] IN
             /\ "schedule_enabled" \notin DOMAIN data
             /\ "schedules" \in DOMAIN data /\ "schedule_mode" \in DOMAIN data
             /\ \A at \in Clock :
                   WebhookItem_from_dict(data, at).schedules = data.schedules

C17_LegacyMigration == []C17_NeverOldFormAgain /\ [][C17_LoadStep]_vars

\* the process loaded a file of v4.4, a timer saved the configuration, and
\* the process, started again, has read the window back as a window
C17_Witness ==
    /\ alive
    /\ Len(store_log) > 1
    /\ store_log[1].kind = "load" /\ store_log[1].loaded
    /\ inodes[1] = WholeFile(LegacySnapshot)
    /\ LastLogged.kind = "load" /\ LastLogged.loaded
    /\ files.durable # 1
    /\ "schedule_enabled" \notin
          DOMAIN inodes[files.durable][1].snap.groups["a"].webhooks[1]
    /\ groups["a"].webhooks[1].schedule_mode = "date_range"
    /\ groups["a"].webhooks[1].schedules =
          <<[date |-> 1, start_time |-> 1, end_time |-> 2]>>

-----------------------------------------------------------------------------
(* FeishuImageUploader *)

\* the bytes of the images a message may carry
Images == {"png1", "png2", "png3"}

\* hashlib.md5(image_data).hexdigest(): a digest of 128 bits, which distinct
\* byte sequences may share, as the third image and the first do
md5(image_data) ==
    CASE image_data = "png1" -> "d1"
      [] image_data = "png2" -> "d2"
      [] OTHER -> "d1"

\* upload_image returns None
NoKey == "nokey"

\* the image_key the platform gives for an image
KeyFor(image_data) ==
    CASE image_data = "png1" -> "key1"
      [] image_data = "png2" -> "key2"
      [] OTHER -> "key3"

\* the tenant_access_token the platform gives to an application
TokenFor(app_id) ==
    CASE app_id = "id0" -> "token0"
      [] app_id = "id1" -> "token1"
      [] OTHER -> "token2"

\* the lifetimes, in seconds, the platform may state in `expire`
Lifetimes == {2 * Margin, 3 * Margin}

\* self.app_id or FEISHU_APP_ID, self.app_secret or FEISHU_APP_SECRET
EffectiveCredentials(f) ==
    [app_id |-> IF f.app_id # "" THEN f.app_id ELSE f.FEISHU_APP_ID,
     app_secret |-> IF f.app_secret # "" THEN f.app_secret
                    ELSE f.FEISHU_APP_SECRET]

\* a freshness test without the margin
TokenFresh_NoMargin(cache, current_time) ==
    cache.token # NoToken /\ current_time < cache.expire_time

\* self.token_cache['token'] and
\* current_time < self.token_cache['expire_time'] - 60
TokenFresh(cache, current_time) ==
    cache.token # NoToken /\ current_time < cache.expire_time - Margin

\* relay_message: the group has an enabled feishu webhook in schedule
has_active_feishu(g, at) ==
    \E i \in 1 .. Len(g.webhooks) :
       /\ g.webhooks[i].enabled
       /\ g.webhooks[i].type = "feishu"
       /\ is_in_schedule(g.webhooks[i], at)

\* what upload_image keeps while it runs
UploadFrame(image_data) ==
    [image_data |-> image_data, img_hash |-> md5(image_data),
     app_id |-> "", app_secret |-> "", current_time |-> 0, token |-> NoToken]

\* upload_image returns to relay_message, which goes on with the dispatch
UploadReturn(th, key) ==
    [IdleThread EXCEPT
        !.ret = [kind |-> "upload", image_data |-> th.arg.image_data,
                 key |-> key]]

\* the pre-upload of relay_message for a message with an image, on thread t:
\* upload_image up to the cache; no lock is held
upload_image(t, gid, image_data) ==
    LET frame == UploadFrame(image_data)
        th == [IdleThread EXCEPT !.gid = gid, !.arg = frame]
    IN
    /\ alive
    /\ FreeThread(t)
    /\ quota.media > 0
    /\ has_active_feishu(groups[gid], now)
    /\ threads' = [threads EXCEPT ![t] =
           IF frame.img_hash \in DOMAIN feishu.upload_cache
           THEN UploadReturn(th, feishu.upload_cache[frame.img_hash])
           ELSE [th EXCEPT !.pc = "token_creds"]]
    /\ quota' = [quota EXCEPT !.media = @ - 1]
    /\ UNCHANGED <<groups, now, sender_log, storeVars, timeVars, feishuVars>>

\* get_tenant_access_token up to the cache: without credentials it returns
\* None and the upload fails; a fresh token is returned as it is
TokenCreds(t) ==
    LET th == threads[t]
        c == EffectiveCredentials(feishu)
    IN
    /\ alive
    /\ th.pc = "token_creds"
    /\ threads' = [threads EXCEPT ![t] =
           IF c.app_id = "" \/ c.app_secret = ""
           THEN UploadReturn(th, NoKey)
           ELSE IF TokenFresh(feishu.token_cache, clock)
           THEN [th EXCEPT !.pc = "upload_post",
                           !.arg.token = feishu.token_cache.token]
           ELSE [th EXCEPT !.pc = "token_post",
                           !.arg.app_id = c.app_id,
                           !.arg.app_secret = c.app_secret,
                           !.arg.current_time = clock]]
    /\ UNCHANGED <<groups, now, quota, sender_log, storeVars, timeVars,
                   feishuVars>>

\* requests.post to the auth endpoint: the request reaches the platform
TokenPost(t) ==
    LET th == threads[t] IN
    /\ alive
    /\ th.pc = "token_post"
    /\ net_log' = Append(net_log, [kind |-> "auth", app_id |-> th.arg.app_id,
                                   app_secret |-> th.arg.app_secret])
    /\ threads' = [threads EXCEPT ![t].pc = "token_wait"]
    /\ UNCHANGED <<groups, now, quota, sender_log, storeVars, timeVars,
                   feishu>>

\* the answer of the auth endpoint: on success the cache is replaced, with
\* the time the call read before the request; otherwise None is returned and
\* the upload fails
TokenReturn(t, success, expire) ==
    LET th == threads[t]
        token == TokenFor(th.arg.app_id)
    IN
    /\ alive
    /\ th.pc = "token_wait"
    /\ ~success => quota.fail > 0
    /\ IF success
       THEN /\ feishu' = [feishu EXCEPT !.token_cache =
                   [token |-> token,
                    expire_time |-> th.arg.current_time + expire]]
            /\ threads' = [threads EXCEPT ![t].pc = "upload_post",
                                          ![t].arg.token = token]
            /\ UNCHANGED quota
       ELSE /\ threads' = [threads EXCEPT ![t] = UploadReturn(th, NoKey)]
            /\ quota' = [quota EXCEPT !.fail = @ - 1]
            /\ UNCHANGED feishu
    /\ UNCHANGED <<groups, now, sender_log, storeVars, timeVars, net_log>>

\* requests.post of the image and its answer: on success the key is cached
\* under the digest and returned
UploadPost(t, success) ==
    LET th == threads[t]
        key == KeyFor(th.arg.image_data)
        cache == feishu.upload_cache
    IN
    /\ alive
    /\ th.pc = "upload_post"
    /\ ~success => quota.fail > 0
    /\ net_log' = Append(net_log,
           [kind |-> "upload", image_data |-> th.arg.image_data,
            token |-> th.arg.token, success |-> success])
    /\ IF success
       THEN /\ feishu' = [feishu EXCEPT !.upload_cache =
                   [h \in DOMAIN cache \cup {th.arg.img_hash} |->
                       IF h = th.arg.img_hash THEN key ELSE cache[h]]]
            /\ threads' = [threads EXCEPT ![t] = UploadReturn(th, key)]
            /\ UNCHANGED quota
       ELSE /\ threads' = [threads EXCEPT ![t] = UploadReturn(th, NoKey)]
            /\ quota' = [quota EXCEPT !.fail = @ - 1]
            /\ UNCHANGED feishu
    /\ UNCHANGED <<groups, now, sender_log, storeVars, timeVars>>

\* a minute passes
Elapse ==
    /\ alive
    /\ clock < MaxMinutes * Margin
    /\ clock' = clock + Margin
    /\ UNCHANGED <<groups, threads, now, quota, sender_log, storeVars,
                   store_log, feishuVars>>

\* the uploads of the dispatches and the clock
NextUpload ==
    \/ \E t \in DOMAIN threads, gid \in DOMAIN groups, image_data \in Images :
          upload_image(t, gid, image_data)
    \/ \E t \in DOMAIN threads : TokenCreds(t)
    \/ \E t \in DOMAIN threads : TokenPost(t)
    \/ \E t \in DOMAIN threads, success \in BOOLEAN, expire \in Lifetimes :
          TokenReturn(t, success, expire)
    \/ \E t \in DOMAIN threads, success \in BOOLEAN : UploadPost(t, success)
    \/ Elapse

\* two groups with an enabled feishu webhook each
FeishuGroups ==
    [gid \in {"a", "b"} |->
        IF gid = "a"
        THEN BossGroup(SubSeq(SampleWebhooks(AllFlags, NoFlags, NoFlags), 1, 2),
                       MODE_SYNC, 0)
        ELSE BossGroup(SubSeq(SampleWebhooks(AllFlags, NoFlags, NoFlags), 2, 2),
                       MODE_SYNC, 0)]

\* two threads, the credentials of the environment, which may be empty
\* strings, MaxUpload messages with an image and one failing answer
InitUpload ==
    /\ groups = FeishuGroups
    /\ threads = [t \in 1 .. 2 |-> IdleThread]
    /\ now = [date |-> 0, time |-> 0]
    /\ sender_log = <<>>
    /\ quota = Quota(0, MaxUpload, 1, 0)
    /\ creds \in {DefaultCredentials, [app_id |-> "", app_secret |-> ""]}
    /\ feishu = [FeishuImageUploader EXCEPT
                    !.FEISHU_APP_ID = creds.app_id,
                    !.FEISHU_APP_SECRET = creds.app_secret]
    /\ save_timer = NoThread
    /\ files = [durable |-> 1, tmp |-> 0]
    /\ inodes = <<WholeFile(Snapshot(creds, groups, now))>>
    /\ alive = TRUE
    /\ clock = 0
    /\ store_log = <<>>
    /\ net_log = <<>>

SpecUpload == InitUpload /\ [][NextUpload]_vars

\* the uploads of the dispatches and the updates of the credentials; the
\* writes of the configuration do not touch the uploader and are left out
NextFeishu ==
    \/ \E t \in DOMAIN threads, image_data \in Images :
          upload_image(t, "a", image_data)
    \/ \E t \in DOMAIN threads : TokenCreds(t)
    \/ \E t \in DOMAIN threads : TokenPost(t)
    \/ \E t \in DOMAIN threads, success \in BOOLEAN, expire \in Lifetimes :
          TokenReturn(t, success, expire)
    \/ \E t \in DOMAIN threads, success \in BOOLEAN : UploadPost(t, success)
    \/ \E t \in DOMAIN threads, c \in CredentialRequests :
          update_feishu_credentials(t, c.app_id, c.app_secret)
    \/ \E t \in DOMAIN threads : CredGlobals(t)
    \/ \E t \in DOMAIN threads : CredUploader(t)
    \/ \E t \in DOMAIN threads : CredReset(t)
    \/ \E t \in DOMAIN threads : CredSave(t)

\* the credentials of the environment, two messages with an image and one
\* update of the credentials
InitFeishu ==
    /\ groups = FeishuGroups
    /\ threads = [t \in 1 .. NumWorkers + 1 |-> IdleThread]
    /\ now = [date |-> 0, time |-> 0]
    /\ sender_log = <<>>
    /\ quota = Quota(0, 2, 0, 1)
    /\ InitStore

SpecFeishu == InitFeishu /\ [][NextFeishu]_vars

\* the uploads that have returned a key
ReturnedUploads ==
    {threads[t].ret : t \in {u \in DOMAIN threads :
                               /\ threads[u].pc = "idle"
                               /\ threads[u].ret.kind = "upload"
                               /\ threads[u].ret.key # NoKey}}

\* the positions of net_log that hold an upload of these bytes
UploadCalls(image_data) ==
    {i \in 1 .. Len(net_log) :
        net_log[i].kind = "upload" /\ net_log[i].image_data = image_data}

\* every key an upload returns is the key the platform gave for the same
\* bytes, in a call that succeeded
C18_KeyOfTheBytes ==
    \A r \in ReturnedUploads :
       /\ r.key = KeyFor(r.image_data)
       /\ \E i \in UploadCalls(r.image_data) : net_log[i].success

\* once a call for some bytes has succeeded, no call for the same bytes is
\* made
C18_OneCallPerBytes ==
    \A image_data \in Images :
       \A i, j \in UploadCalls(image_data) : i < j => ~net_log[i].success

-----------------------------------------------------------------------------
(* C18: the upload cache is keyed by the content: an upload of bytes of      *)
(* which an upload has succeeded returns the reference of that upload and    *)
(* makes no network call, so uploads of the same bytes make one call, and    *)
(* uploads of different bytes make a call each and return the reference of   *)
(* their own bytes.                                                          *)
C18_ContentKeyed == C18_KeyOfTheBytes /\ C18_OneCallPerBytes

\* the token cache holds a token and the time is earlier than its expiry
\* minus 60 seconds
C19_Fresh ==
    /\ feishu.token_cache.token # NoToken
    /\ clock + 60 < feishu.token_cache.expire_time

\* thread t leaves the test of the cache as the claim says: with a fresh
\* token it has the cached token and no call was made; otherwise it goes on
\* to the exchange, with the time of the call
C19_Check(t) ==
    IF C19_Fresh
    THEN /\ threads'[t].pc = "upload_post"
         /\ threads'[t].arg.token = feishu.token_cache.token
         /\ UNCHANGED <<feishu, net_log>>
    ELSE /\ threads'[t].pc = "token_post"
         /\ threads'[t].arg.current_time = clock
         /\ UNCHANGED <<feishu, net_log>>

\* the exchange of thread t: one call to the auth endpoint, and on success
\* the cache holds the new token with the expiry t + lifetime, and the new
\* token is returned
C19_Exchange(t) ==
    /\ threads[t].pc = "token_post" /\ threads'[t].pc # "token_post" =>
          /\ threads'[t].pc = "token_wait"
          /\ Len(net_log') = Len(net_log) + 1
          /\ net_log'[Len(net_log')].kind = "auth"
          /\ UNCHANGED feishu
    /\ threads[t].pc = "token_wait" /\ threads'[t].pc # "token_wait" =>
          /\ UNCHANGED net_log
          /\ IF threads'[t].pc = "upload_post"
             THEN /\ feishu'.token_cache.token = TokenFor(threads[t].arg.app_id)
                  /\ \E lifetime \in Lifetimes :
                        feishu'.token_cache.expire_time =
                           threads[t].arg.current_time + lifetime
                  /\ threads'[t].arg.token = feishu'.token_cache.token
             ELSE /\ UNCHANGED feishu
                  /\ threads'[t].ret.key = NoKey

\* the statement without a condition on the credentials
C19_AnyStep ==
    \A t \in DOMAIN threads :
       /\ threads[t].pc = "token_creds" /\ threads'[t].pc # "token_creds" =>
             C19_Check(t)
       /\ C19_Exchange(t)

C19_AnyCredentials == [][C19_AnyStep]_vars

\* the credentials the call uses are not empty
C19_Configured ==
    /\ EffectiveCredentials(feishu).app_id # ""
    /\ EffectiveCredentials(feishu).app_secret # ""

-----------------------------------------------------------------------------
(* C19: with credentials configured, a call of get_tenant_access_token at    *)
(* time t returns the cached token, without an exchange, exactly when a      *)
(* token is cached and t is earlier than its expiry minus 60 seconds;        *)
(* otherwise it makes one exchange and, when the exchange succeeds, stores   *)
(* the new token with the expiry t + lifetime and returns it.  Without       *)
(* credentials it returns None and makes no exchange.                        *)
C19_Step ==
    \A t \in DOMAIN threads :
       /\ threads[t].pc = "token_creds" /\ threads'[t].pc # "token_creds" =>
             IF C19_Configured THEN C19_Check(t)
             ELSE /\ threads'[t].pc = "idle"
                  /\ threads'[t].ret.key = NoKey
                  /\ UNCHANGED <<feishu, net_log>>
       /\ C19_Exchange(t)

C19_TokenCache == [][C19_Step]_vars

\* a token taken at time 0 for two minutes was not fresh a minute later: the
\* second call has made a second exchange and stored the new token with the
\* expiry of its own time plus the lifetime
C19_Witness ==
    /\ clock = Margin
    /\ Len(net_log) = 3
    /\ net_log[1].kind = "auth" /\ net_log[2].kind = "upload"
    /\ net_log[3].kind = "auth"
    /\ feishu.token_cache.expire_time = Margin + 2 * Margin
    /\ \E t \in DOMAIN threads :
          /\ threads[t].pc = "upload_post"
          /\ threads[t].arg.current_time = Margin
          /\ threads[t].arg.token = feishu.token_cache.token

\* a thread is inside update_feishu_credentials
UpdateRunning ==
    \E t \in DOMAIN threads :
       threads[t].pc \in {"cred_globals", "cred_uploader", "cred_reset",
                          "cred_save"}

-----------------------------------------------------------------------------
(* C20: an update of the credentials empties the token cache for good: once  *)
(* the update has returned, a call of get_tenant_access_token that returns   *)
(* the cached token returns a token of the credentials now in force, never   *)
(* one that was obtained with the credentials before, also when an exchange  *)
(* with those was in flight while the update ran.                            *)
C20_Step ==
    \A t \in DOMAIN threads :
       (/\ threads[t].pc = "token_creds"
        /\ threads'[t].pc = "upload_post"
        /\ ~UpdateRunning) =>
          threads'[t].arg.token = TokenFor(creds.app_id)

C20_NoStaleToken == [][C20_Step]_vars

-----------------------------------------------------------------------------
(* The admin handlers of a group answer a request *)

\* url.startswith("https://"): the addresses w1, w2, w3 stand for addresses
\* of that form, the others the console may send do not
StartsWithHttps(url) == url \in Range(WebhookIds)

\* the addresses, types, names and modes the console may send
RequestUrls == {WebhookIds[2], WebhookIds[3], "http://w3", ""}
RequestTypes == {"discord", "slack"}
RequestNames == {"", " ", "renamed"}
RequestModes == {MODE_SYNC, MODE_ROUND_ROBIN, "random"}

\* the tests of add_webhook with the test of the scheme left out
add_webhook_refusal_AnyScheme(g, url, type) ==
    IF url = "" THEN "url"
    ELSE IF \E w \in Range(g.webhooks) : w.url = url THEN "exists"
    ELSE IF type \notin {"discord", "feishu", "wecom"} THEN "type"
    ELSE "ok"

\* the tests of add_webhook, in the order of the code: which of them refuses
\* the request, or "ok"
add_webhook_refusal(g, url, type) ==
    IF url = "" \/ ~StartsWithHttps(url) THEN "url"
    ELSE IF \E w \in Range(g.webhooks) : w.url = url THEN "exists"
    ELSE IF type \notin {"discord", "feishu", "wecom"} THEN "type"
    ELSE "ok"

\* a handler of BossGroup called by the request thread t runs inside
\* `with self.lock` and returns (success, message): when it succeeds it
\* leaves the group as g1 and has called _trigger_save, when it fails it has
\* done neither
GroupReply(t, gid, request, success, g1) ==
    LET r == IF success
             THEN _schedule_save(threads, save_timer, t)
             ELSE [threads |-> threads, save_timer |-> save_timer,
                   store_log |-> store_log]
    IN
    /\ alive
    /\ AdminOpen
    /\ FreeThread(t)
    /\ gid \in DOMAIN groups
    /\ LockFree(groups[gid])
    /\ success => CanScheduleSave(threads, save_timer, t)
    /\ groups' = [groups EXCEPT ![gid] = IF success THEN g1 ELSE @]
    /\ threads' = [r.threads EXCEPT
                      ![t].arg = request,
                      ![t].ret = [kind |-> "admin", success |-> success]]
    /\ save_timer' = r.save_timer
    /\ store_log' = r.store_log
    /\ quota' = [quota EXCEPT !.admin = @ - 1]
    /\ UNCHANGED <<now, creds, files, inodes, alive, sender_log, clock,
                   feishuVars>>

\* the route set_group_mode and BossGroup.set_send_mode
SetSendMode(t, gid, mode) ==
    GroupReply(t, gid, [op |-> "set_send_mode", mode |-> mode],
               mode \in {MODE_SYNC, MODE_ROUND_ROBIN},
               [groups[gid] EXCEPT !.send_mode = mode])

\* the route add_webhook_to_group and BossGroup.add_webhook
AddWebhook(t, gid, url, type, is_fixed) ==
    GroupReply(t, gid, [op |-> "add_webhook", url |-> url, type |-> type],
               add_webhook_refusal(groups[gid], url, type) = "ok",
               [groups[gid] EXCEPT !.webhooks = Append(@,
                   [WebhookItem(url, type, TRUE, is_fixed, "off", <<>>)
                       EXCEPT !.created_at = now])])

\* the route update_webhook and BossGroup.update_webhook: the loop renames
\* the webhook whose id is webhook_id when `name` is true, that is when it
\* is not the empty string
UpdateWebhook(t, gid, id, name) ==
    LET g == groups[gid]
        found == \E w \in Range(g.webhooks) : w.id = id
    IN GroupReply(t, gid, [op |-> "update_webhook", id |-> id, name |-> name],
                  found /\ name # "",
                  IF found
                  THEN [g EXCEPT !.webhooks[IndexOf(g, id)].name = name]
                  ELSE g)

\* admin requests, valid and not, and the saves they schedule
NextValidate ==
    \/ \E t \in DOMAIN threads, gid \in DOMAIN groups, mode \in RequestModes :
          SetSendMode(t, gid, mode)
    \/ \E t \in DOMAIN threads, gid \in DOMAIN groups, url \in RequestUrls,
          type \in RequestTypes, is_fixed \in BOOLEAN :
          AddWebhook(t, gid, url, type, is_fixed)
    \/ \E t \in DOMAIN threads, gid \in DOMAIN groups,
          id \in {WebhookIds[1], WebhookIds[3]}, name \in RequestNames :
          UpdateWebhook(t, gid, id, name)
    \/ \E t \in DOMAIN threads : SaveRender(t)
    \/ \E t \in DOMAIN threads : SaveOpen(t)
    \/ \E t \in DOMAIN threads : SaveWrite(t)
    \/ \E t \in DOMAIN threads : SaveReplace(t)
    \/ Tick

\* one group of two webhooks, no inbound message
InitValidate ==
    /\ groups = [gid \in {"a"} |->
                    BossGroup(SubSeq(SampleWebhooks(AllFlags, NoFlags,
                                                    NoFlags), 1, 2),
                              MODE_SYNC, 0)]
    /\ threads = [t \in 1 .. NumWorkers |-> IdleThread]
    /\ now = [date |-> 0, time |-> 0]
    /\ sender_log = <<>>
    /\ quota = Quota(0, 0, 0, MaxAdmin)
    /\ InitStore

SpecValidate == InitValidate /\ [][NextValidate]_vars

\* the input of an admin request is invalid for group g: an address that
\* does not start with https://, or that the group has, or an unknown type;
\* an empty name; an unknown mode
C21_Invalid(request, g) ==
    CASE request.op = "add_webhook" ->
            \/ ~StartsWithHttps(request.url)
            \/ \E w \in Range(g.webhooks) : w.url = request.url
            \/ request.type \notin {"discord", "feishu", "wecom"}
      [] request.op = "update_webhook" -> request.name = ""
      [] request.op = "set_send_mode" ->
            request.mode \notin {MODE_SYNC, MODE_ROUND_ROBIN}

C21_Step ==
    \A t \in DOMAIN threads :
        (/\ FreeThread(t)
         /\ quota'.admin < quota.admin
         /\ C21_Invalid(threads'[t].arg, groups["a"]))
        => /\ ~threads'[t].ret.success
           /\ groups' = groups
           /\ store_log' = store_log
           /\ save_timer' = save_timer
           /\ \A s \in DOMAIN threads : s # t => threads'[s] = threads[s]

-----------------------------------------------------------------------------
(* Schedule requests with windows that lack a field *)

\* a window without a date, and one without an end
NoDateWindow == [date |-> EmptyField, start_time |-> 1, end_time |-> 2]
NoEndWindow == [date |-> 1, start_time |-> 1, end_time |-> EmptyField]

\* the schedule requests the console may send, well formed or not
WindowRequests ==
    ScheduleRequests \cup
    {[schedule_mode |-> "date_range",
      schedules |-> SampleSchedule(2) \o <<NoDateWindow>>],
     [schedule_mode |-> "off", schedules |-> <<NoEndWindow>>],
     [schedule_mode |-> "off", schedules |-> SampleSchedule(2)]}

\* schedule requests and the writes they force
NextWindows ==
    \/ \E t \in DOMAIN threads, gid \in DOMAIN groups,
          i \in 1 .. Len(WebhookIds), data \in WindowRequests :
          set_webhook_schedule(t, gid, WebhookIds[i], data)
    \/ \E t \in DOMAIN threads : SetScheduleWindows(t)
    \/ \E t \in DOMAIN threads : SaveRender(t)
    \/ \E t \in DOMAIN threads : SaveOpen(t)
    \/ \E t \in DOMAIN threads : SaveWrite(t)
    \/ \E t \in DOMAIN threads : SaveReplace(t)

\* one group whose first webhook has a schedule of one window
InitWindows ==
    /\ groups = [gid \in {"a"} |->
                    BossGroup(SampleWebhooks(AllFlags, NoFlags,
                                  [i \in 1 .. Len(WebhookIds) |-> i = 1]),
                              MODE_SYNC, 0)]
    /\ threads = [t \in {1} |-> IdleThread]
    /\ now = [date |-> 0, time |-> 0]
    /\ sender_log = <<>>
    /\ quota = Quota(0, 0, 0, MaxAdmin)
    /\ InitStore

SpecWindows == InitWindows /\ [][NextWindows]_vars

\* a window of the list lacks its date, start or end
HasInvalidWindow(schedules) ==
    \E i \in 1 .. Len(schedules) :
        \/ schedules[i].date = EmptyField
        \/ schedules[i].start_time = EmptyField
        \/ schedules[i].end_time = EmptyField

\* the route takes a request with such a window, or goes on with it
C22_Step ==
    \A t \in DOMAIN threads :
        /\ (/\ threads[t].pc = "idle"
            /\ threads'[t].pc = "sched_windows"
            /\ HasInvalidWindow(threads'[t].arg)) => groups' = groups
        /\ (/\ threads[t].pc = "sched_windows"
            /\ HasInvalidWindow(threads[t].arg))
           => groups' = groups /\ threads'[t].pc # "save_render"

\* C22: a schedule request with a window whose date, start or end is empty
\* is rejected: the webhook's schedule mode and windows stay as they were
\* and nothing is written
C22_InvalidWindowRejected == [][C22_Step]_vars

-----------------------------------------------------------------------------
(* What a failing Sender call leaves behind *)

\* the Sender calls made for group gid, oldest first
GroupCalls(gid) == SelectSeq(sender_log, LAMBDA c : c.gid = gid)

\* the number of calls of a list that were answered with `answer`
AnswerCount(calls, answer) ==
    Len(SelectSeq(calls, LAMBDA c : c.answer = answer))

\* the endpoints the dispatch thread th has returned from had to hand to the
\* Sender: the fixed ones and those of its mode pass, when covered
SelectedBy(th) ==
    LET g == groups[th.gid] IN
    {id \in Range(th.fixed) : CoveredRef(WebhookOf(g, id))}
    \cup (IF th.pass = "sync"
          THEN {w.id : w \in {v \in Range(Eligible(g)) : CoveredRef(v)}}
          ELSE {th.webhook} \ {NoWebhook})

\* C23: when the Sender fails for an endpoint during a dispatch, that
\* endpoint's failed counter and the group's failed counter grow by one, the
\* endpoint is not tried again in that dispatch, and every other endpoint
\* selected in the dispatch is still handed to the Sender; so that when every
\* dispatch has returned each failed counter is the number of failed calls
C23_FailureIsolated ==
    (\A t \in DOMAIN threads : threads[t].pc = "idle") =>
        \A gid \in DOMAIN groups :
            LET g == groups[gid]
                calls == GroupCalls(gid)
            IN /\ \A i \in 1 .. Len(g.webhooks) :
                     g.webhooks[i].stats.failed =
                        AnswerCount(SelectSeq(calls,
                            LAMBDA c : c.id = g.webhooks[i].id), "fail")
               /\ g.stats.total_failed = AnswerCount(calls, "fail")
               /\ \A i \in 1 .. Len(calls), j \in 1 .. Len(calls) :
                     (i # j /\ calls[i].req = calls[j].req)
                        => calls[i].id # calls[j].id
               /\ \A t \in DOMAIN threads :
                     (Returned(threads[t]) /\ threads[t].gid = gid
                        /\ threads[t].pass # "")
                     => {c.id : c \in {d \in Range(calls) :
                                          d.req = threads[t].req}}
                           = SelectedBy(threads[t])

-----------------------------------------------------------------------------
(* Endpoints out of schedule *)

\* the enabled endpoints out of schedule that the dispatch thread th has
\* returned from went past: the fixed ones, and those of its mode pass
PassedOver(th) ==
    LET g == groups[th.gid] IN
    {id \in Range(th.fixed) : ~CoveredRef(WebhookOf(g, id))}
    \cup (IF th.pass = "sync"
          THEN {w.id : w \in {v \in Range(Eligible(g)) : ~CoveredRef(v)}}
          ELSE Range(th.skipped))

\* C24: an endpoint skipped as out of schedule in a dispatch is listed once
\* in the outcome list, as skipped, is not handed to the Sender, and changes
\* neither its own counters nor the group's delivered and failed counters
C24_SkippedLeavesNoTrace ==
    \A t \in DOMAIN threads :
        LET th == threads[t]
            g == groups[th.gid]
            details == th.ret.details
            calls == SelectSeq(sender_log, LAMBDA c : c.req = th.req)
        IN (Returned(th) /\ th.pass # "") =>
             /\ {r.id : r \in {x \in Range(details) : x.skipped}}
                   = PassedOver(th)
             /\ \A id \in PassedOver(th) :
                   /\ Len(SelectSeq(details, LAMBDA r : r.id = id)) = 1
                   /\ \A r \in Range(details) : r.id = id => ~r.success
                   /\ \A c \in Range(calls) : c.id # id
                   /\ WebhookOf(g, id).stats = [sent |-> 0, failed |-> 0]
             /\ g.stats.total_sent = AnswerCount(calls, "ok")
             /\ g.stats.total_failed = AnswerCount(calls, "fail")

\* a returned dispatch that skipped a fixed endpoint and an endpoint of its
\* mode pass and whose one Sender call failed
C24_Witness ==
    \E t \in DOMAIN threads :
        LET th == threads[t]
            details == th.ret.details
        IN /\ Returned(th)
           /\ th.pass # ""
           /\ \E r \in Range(details) : r.skipped /\ r.is_fixed
           /\ \E r \in Range(details) : r.skipped /\ ~r.is_fixed
           /\ \E r \in Range(details) : ~r.skipped /\ ~r.success
           /\ groups[th.gid].stats.total_failed = 1

-----------------------------------------------------------------------------
(* C25: for every dispatch that is not filtered, in both modes, the success  *)
(* relay_message reports is true exactly when at least one Sender call made  *)
(* by that dispatch, in the fixed pass or in the mode pass, succeeded.       *)
C25_GroupSuccess ==
    \A t \in DOMAIN threads :
        LET th == threads[t] IN
        (Returned(th) /\ ~IsFiltered(th.content, th.image)) =>
            (th.ret.success <=>
                \E c \in Range(sender_log) : c.req = th.req /\ c.answer = "ok")

\* a returned dispatch whose fixed endpoint failed and whose mode pass
\* reached an endpoint, and one that reports success
C25_Witness ==
    \E t \in DOMAIN threads :
        LET th == threads[t] IN
        /\ Returned(th)
        /\ th.ret.success
        /\ \E c \in Range(sender_log) :
              c.req = th.req /\ c.pass = "fixed" /\ c.answer = "fail"
        /\ \E c \in Range(sender_log) :
              c.req = th.req /\ c.pass # "fixed" /\ c.answer = "ok"
        /\ \E r \in Range(th.ret.details) : r.skipped

-----------------------------------------------------------------------------
(* C26: in round-robin mode, when no eligible endpoint is covered the        *)
(* results of the fixed pass still count: each fixed endpoint is listed with *)
(* the answer of its call, the group's counters count those answers, and the *)
(* dispatch reports failure only when no call of the dispatch succeeded.     *)
C26_FixedStillCounts ==
    \A t \in DOMAIN threads :
        LET th == threads[t]
            g == groups[th.gid]
            details == th.ret.details
            calls == SelectSeq(sender_log, LAMBDA c : c.req = th.req)
            fixed == SelectSeq(details, LAMBDA r : r.is_fixed)
        IN (Returned(th) /\ th.pass = "rr" /\ th.webhook = NoWebhook) =>
             /\ Ids(fixed) = th.fixed
             /\ \A i \in 1 .. Len(fixed) :
                   /\ fixed[i].skipped <=> \A c \in Range(calls) :
                                              c.id # fixed[i].id
                   /\ fixed[i].success <=> \E c \in Range(calls) :
                         c.id = fixed[i].id /\ c.answer = "ok"
             /\ \A c \in Range(calls) : c.pass = "fixed"
             /\ ~th.ret.success <=> AnswerCount(calls, "ok") = 0
             /\ th.fixed # <<>> =>
                   /\ g.stats.total_sent = AnswerCount(calls, "ok")
                   /\ g.stats.total_failed = AnswerCount(calls, "fail")

\* a returned round-robin dispatch that found every eligible endpoint out of
\* schedule and reports the success of its fixed endpoint
C26_Witness ==
    \E t \in DOMAIN threads :
        LET th == threads[t] IN
        /\ Returned(th)
        /\ th.pass = "rr"
        /\ th.webhook = NoWebhook
        /\ th.skipped # <<>>
        /\ th.ret.success
        /\ groups[th.gid].stats.total_sent = 1

-----------------------------------------------------------------------------
(* A round-robin dispatch that finds nothing in schedule *)

\* the thread has returned from a round-robin dispatch over at least one
\* eligible endpoint, none of them covered
NoneCovered(th) ==
    /\ Returned(th)
    /\ th.pass = "rr"
    /\ Eligible(groups[th.gid]) # <<>>
    /\ \A w \in Range(Eligible(groups[th.gid])) : ~CoveredRef(w)

\* the cursor is the number it was before the call
C27_CursorUntouched ==
    \A t \in DOMAIN threads :
        NoneCovered(threads[t]) =>
            groups[threads[t].gid].current_index = threads[t].cur0

\* C27: a round-robin dispatch in which no eligible endpoint is covered
\* selects nothing, records every eligible endpoint once as skipped, and
\* leaves the cursor at the position it started from, cursor mod N, so that
\* the next dispatch starts from the same endpoint
C27_CursorSamePosition ==
    \A t \in DOMAIN threads :
        LET th == threads[t]
            g == groups[th.gid]
            N == Len(Eligible(g))
        IN NoneCovered(th) =>
             /\ th.webhook = NoWebhook
             /\ CallsOf(th.req, "rr") = <<>>
             /\ Len(th.skipped) = N
             /\ Range(th.skipped) = Range(Ids(Eligible(g)))
             /\ SkipsOf(th.ret.details, FALSE) = th.skipped
             /\ g.current_index = th.cur0 % N
             /\ RRPosition(g.current_index, N) = RRPosition(th.cur0, N)

\* such a dispatch over two eligible endpoints has returned; the cursor was 3
\* before it and is 1 after it
C27_Witness ==
    \E t \in DOMAIN threads :
        /\ NoneCovered(threads[t])
        /\ Len(Eligible(groups[threads[t].gid])) = 2
        /\ threads[t].cur0 = 3
        /\ groups[threads[t].gid].current_index = 1

-----------------------------------------------------------------------------
(* C28: a dispatch that is not filtered, to a group none of whose endpoints  *)
(* is enabled, returns failure with the message that no endpoint is enabled, *)
(* hands nothing to the Sender and leaves the cursor as it was, in both      *)
(* modes.                                                                    *)
C28_NoEnabledEndpoint ==
    \A t \in DOMAIN threads :
        LET th == threads[t]
            g == groups[th.gid]
        IN (/\ Returned(th)
            /\ ~IsFiltered(th.content, th.image)
            /\ \A w \in Range(g.webhooks) : ~w.enabled) =>
             /\ \A c \in Range(sender_log) : c.req # th.req
             /\ ~th.ret.success
             /\ th.ret.details = <<>>
             /\ th.ret.message = "no_enabled"
             /\ Head(g.history).status = "no_enabled"
             /\ g.current_index = th.cur0
             /\ \A w \in Range(g.webhooks) :
                   w.stats = [sent |-> 0, failed |-> 0]

\* a round-robin dispatch of a message with media to a group of three
\* disabled endpoints, one of them fixed, has returned; the cursor is 3
C28_Witness ==
    \E t \in DOMAIN threads :
        LET th == threads[t]
            g == groups[th.gid]
        IN /\ Returned(th)
           /\ th.image
           /\ g.send_mode = MODE_ROUND_ROBIN
           /\ Len(g.webhooks) = 3
           /\ \A w \in Range(g.webhooks) : ~w.enabled
           /\ \E w \in Range(g.webhooks) : w.is_fixed
           /\ g.current_index = 3

-----------------------------------------------------------------------------
(* Dispatches between changes of the list *)

\* inbound messages, and the admin requests that change which endpoints are
\* eligible
NextRotate ==
    \/ Next
    \/ \E gid \in DOMAIN groups, i \in 1 .. Len(WebhookIds), en \in BOOLEAN :
          toggle_webhook(gid, WebhookIds[i], en)
    \/ \E gid \in DOMAIN groups, i \in 1 .. Len(WebhookIds), fx \in BOOLEAN :
          toggle_webhook_fixed(gid, WebhookIds[i], fx)
    \/ \E gid \in DOMAIN groups, i \in 1 .. Len(WebhookIds) :
          remove_webhook(gid, WebhookIds[i])
    \/ \E gid \in DOMAIN groups, i \in 1 .. Len(WebhookIds) :
          add_webhook(gid, WebhookIds[i], "discord", FALSE)

\* one group as a load leaves it: three webhooks without schedule, the last
\* of them disabled or fixed or neither, any saved index; two messages and
\* two admin requests
InitRotate ==
    /\ \E en \in {AllFlags, FirstFlags}, fx \in {NoFlags, LastFlag} :
       \E mode \in {MODE_SYNC, MODE_ROUND_ROBIN}, cur \in 0 .. MaxCursor :
          groups = [gid \in {"a"} |->
                       BossGroup(SampleWebhooks(en, fx, NoFlags), mode, cur)]
    /\ threads = [t \in 1 .. 2 |-> IdleThread]
    /\ now = [date |-> 0, time |-> 0]
    /\ sender_log = <<>>
    /\ quota = Quota(2, 0, 0, 2)
    /\ InitStore

SpecRotate == InitRotate /\ [][NextRotate]_vars

\* C29: whatever add, remove, toggle-enabled and toggle-fixed requests,
\* loads and dispatches came before, a round-robin dispatch never indexes
\* outside the eligible list of the moment: the position it uses is the
\* cursor modulo the number of eligible endpoints, and the endpoint it
\* selects is in the group, enabled and not fixed
C29_CursorInRange ==
    \A t \in DOMAIN threads :
        LET th == threads[t]
            g == groups[th.gid]
            elig == Eligible(g)
            N == Len(elig)
        IN /\ (th.pc = "rr_walk" /\ N >= 1) =>
                 RRPosition(th.tmp, N) \in 0 .. N - 1
           /\ (th.pc = "send" /\ th.pass = "rr") =>
                 /\ N >= 1
                 /\ th.target = elig[(th.cur0 % N) + 1].id
                 /\ \E w \in Range(g.webhooks) :
                       w.id = th.target /\ w.enabled /\ ~w.is_fixed

\* the second dispatch of a run has selected an endpoint after the list has
\* lost an endpoint and the cursor it found was beyond the eligible list
C29_Witness ==
    \E t \in DOMAIN threads :
        LET th == threads[t]
            g == groups[th.gid]
        IN /\ th.pc = "send" /\ th.pass = "rr"
           /\ th.req = 2
           /\ Len(g.webhooks) < Len(WebhookIds)
           /\ quota.admin < 2
           /\ th.cur0 >= Len(Eligible(g))

-----------------------------------------------------------------------------
(* The route of the inbound messages *)

\* str.lower() on the group ids a sender may put in the path
Lower(group_id) ==
    CASE group_id = "A" -> "a"
      [] group_id = "C" -> "c"
      [] OTHER -> group_id

\* the inbound requests: the messages of a dispatch, and one with neither
\* text nor media
InboundMessages == Messages \cup {[content |-> "", image |-> FALSE]}

\* what the route answers to a message without content
NoContent == [kind |-> "http", status |-> 400, success |-> FALSE]

\* the route receive_webhook up to the read of stats["received"]:
\* manager.get_or_create_group comes first, then the parsing of the body and
\* the test for a message without content, then relay_message
receive_webhook(t, group_id, content, image) ==
    LET known == Lower(group_id) \in DOMAIN groups
        gid == IF known THEN Lower(group_id) ELSE CleanId(group_id)
        created == gid \notin DOMAIN groups
        gs == IF created
              THEN [g \in DOMAIN groups \cup {gid} |->
                       IF g = gid
                       THEN [BossGroup(<<>>, MODE_SYNC, 0) EXCEPT
                                !.display_name = DisplayName(gid, "")]
                       ELSE groups[g]]
              ELSE groups
        r == IF created
             THEN _schedule_save(threads, save_timer, t)
             ELSE [threads |-> threads, save_timer |-> save_timer,
                   store_log |-> store_log]
        request == [IdleThread EXCEPT !.gid = gid, !.content = content,
                                      !.image = image]
    IN
    /\ alive
    /\ FreeThread(t)
    /\ quota.dispatch > 0
    /\ image => quota.media > 0
    /\ created => CanScheduleSave(threads, save_timer, t)
    /\ save_timer' = r.save_timer
    /\ store_log' = r.store_log
    /\ IF content = "" /\ ~image
       THEN /\ groups' = gs
            /\ threads' = [r.threads EXCEPT ![t] =
                              [request EXCEPT !.ret = NoContent]]
            /\ quota' = [quota EXCEPT !.dispatch = @ - 1]
       ELSE /\ quota' = [quota EXCEPT !.dispatch = @ - 1, !.started = @ + 1,
                            !.media = IF image THEN @ - 1 ELSE @,
                            !.passed = IF IsFiltered(content, image)
                                       THEN @ ELSE @ + 1]
            /\ IF IsFiltered(content, image)
               THEN /\ groups' = [gs EXCEPT ![gid].history = AppendLeft(@,
                          HistoryEntry("filtered", <<>>, FALSE, "filter"))]
                    /\ threads' = [r.threads EXCEPT ![t] =
                          [request EXCEPT !.req = RequestNo(quota),
                              !.ret = RelayResult(TRUE, "filtered", <<>>)]]
               ELSE /\ groups' = gs
                    /\ threads' = [r.threads EXCEPT ![t] =
                          [request EXCEPT !.pc = "recv_write",
                              !.req = RequestNo(quota),
                              !.tmp = gs[gid].stats.received]]
    /\ UNCHANGED <<now, sender_log, creds, files, inodes, alive, clock,
                   feishuVars>>

\* inbound requests for a group the manager has and for one it has not
NextInbound ==
    \/ \E t \in DOMAIN threads, group_id \in {"A", "C"},
          m \in InboundMessages :
          receive_webhook(t, group_id, m.content, m.image)
    \/ \E t \in DOMAIN threads : RecvWrite(t)
    \/ \E t \in DOMAIN threads : AcquireLock(t)
    \/ \E t \in DOMAIN threads : FixedNext(t)
    \/ \E t \in DOMAIN threads : SyncNext(t)
    \/ \E t \in DOMAIN threads, success \in BOOLEAN : SendReturn(t, success)
    \/ \E t \in DOMAIN threads : SyncEntry(t)
    \/ \E t \in DOMAIN threads : RoundRobinRead(t)
    \/ \E t \in DOMAIN threads : RoundRobinEntry(t)
    \/ \E t \in DOMAIN threads : ReleaseLock(t)
    \/ \E t \in DOMAIN threads : SentRead(t)
    \/ \E t \in DOMAIN threads : SentWrite(t)
    \/ \E t \in DOMAIN threads : FailedRead(t)
    \/ \E t \in DOMAIN threads : FailedWrite(t)

\* the manager has group a alone: three enabled webhooks, the last one fixed
InitInbound ==
    /\ \E mode \in {MODE_SYNC, MODE_ROUND_ROBIN} :
          groups = [gid \in {"a"} |->
                       BossGroup(SampleWebhooks(AllFlags, LastFlag, NoFlags),
                                 mode, 0)]
    /\ threads = [t \in 1 .. 2 |-> IdleThread]
    /\ now = [date |-> 0, time |-> 0]
    /\ sender_log = <<>>
    /\ quota = Quota(2, 1, 1, 0)
    /\ InitStore

SpecInbound == InitInbound /\ [][NextInbound]_vars

\* the step in which the route answers a message without content
C30_Step ==
    \A t \in DOMAIN threads :
        (/\ FreeThread(t)
         /\ quota'.dispatch < quota.dispatch
         /\ threads'[t].content = "" /\ ~threads'[t].image)
        => /\ threads'[t].ret = NoContent
           /\ threads'[t].pc = "idle"
           /\ sender_log' = sender_log
           /\ groups' = groups
           /\ store_log' = store_log
           /\ save_timer' = save_timer
           /\ \A s \in DOMAIN threads : s # t => threads'[s] = threads[s]

\* C30: an inbound message with neither text nor media is answered with a
\* client error, starts no dispatch and changes no state: no group is
\* created, no counter, cursor or history entry changes, no save is
\* scheduled
C30_EmptyChangesNothing == [][C30_Step]_vars

-----------------------------------------------------------------------------
(* The history of a group that has seen many messages *)

\* the history a group has after n dispatches that found no enabled
\* endpoint, the first of them a filtered message
OldHistory(n) ==
    [i \in 1 .. n |->
        IF i = n THEN HistoryEntry("filtered", <<>>, FALSE, "filter")
        ELSE HistoryEntry("no_enabled", <<>>, FALSE, "sync")]

\* two messages, one after the other or at the same time, to a group whose
\* history is empty, one short of full, or full
InitHistory ==
    /\ \E en \in {NoFlags, AllFlags}, sc \in {NoFlags, AllFlags} :
       \E mode \in {MODE_SYNC, MODE_ROUND_ROBIN},
          n \in {0, HistoryMaxLen - 1, HistoryMaxLen} :
          groups = [gid \in {"a"} |->
                       [BossGroup(SampleWebhooks(en, LastFlag, sc), mode, 0)
                           EXCEPT !.history = OldHistory(n)]]
    /\ threads = [t \in 1 .. 2 |-> IdleThread]
    /\ now = [date |-> 0, time |-> 1]
    /\ sender_log = <<>>
    /\ quota = Quota(2, 1, 1, 0)
    /\ InitStore

SpecHistory == InitHistory /\ [][Next]_vars

\* the threads whose call of relay_message for group gid returns in the step
ReturningIn(gid) ==
    {t \in DOMAIN threads :
        /\ Returned(threads'[t])
        /\ threads'[t].gid = gid
        /\ threads[t].pc # "idle" \/ threads'[t].req # threads[t].req}


C31_Bounded ==
    \A gid \in DOMAIN groups : Len(groups[gid].history) <= HistoryMaxLen

C31_Step ==
    \A gid \in DOMAIN groups :
        LET h == groups[gid].history
            h2 == groups'[gid].history
            keep == IF Len(h) < HistoryMaxLen THEN Len(h)
                    ELSE HistoryMaxLen - 1
        IN IF ReturningIn(gid) = {}
           THEN h2 = h
           ELSE /\ Cardinality(ReturningIn(gid)) = 1
                /\ Len(h2) = keep + 1
                /\ SubSeq(h2, 2, Len(h2)) = SubSeq(h, 1, keep)
                /\ \A t \in ReturningIn(gid) :
                      Head(h2).has_image = threads'[t].image

\* C31: a group's history never holds more than 50 entries, newest first,
\* and every call of relay_message, whether it delivered, failed, skipped,
\* was filtered or found no endpoint, puts exactly one entry in front of it,
\* the oldest entry being dropped when the history is full
C31_BoundedHistory == []C31_Bounded /\ [][C31_Step]_vars

\* both messages have been answered; the history is full, the entry of the
\* filtered message that was its oldest is gone, and its newest entry is of
\* a call that skipped an endpoint
C31_Witness ==
    /\ \A t \in DOMAIN threads : Returned(threads[t])
    /\ Len(groups["a"].history) = HistoryMaxLen
    /\ groups["a"].history[HistoryMaxLen].status = "no_enabled"
    /\ "skip" \in Range(Head(groups["a"].history).marks)

-----------------------------------------------------------------------------
(* C32: within one dispatch no endpoint is handed to the Sender more than    *)
(* once: the endpoints of the fixed pass and those of the mode pass are      *)
(* disjoint, whatever toggle-fixed requests come before, between and after   *)
(* the steps of the dispatch.                                                *)
C32_OncePerDispatch ==
    /\ \A i \in 1 .. Len(sender_log), j \in 1 .. Len(sender_log) :
          (i # j /\ sender_log[i].req = sender_log[j].req)
             => sender_log[i].id # sender_log[j].id
    /\ \A t \in DOMAIN threads :
          LET th == threads[t] IN
          /\ (th.pass = "sync" /\ th.pc \in {"sync", "send"}) =>
                 Range(th.fixed) \cap Range(th.todo) = {}
          /\ (th.pass = "rr" /\ th.pc = "send") =>
                 th.webhook \notin Range(th.fixed)

\* an endpoint was called in the fixed pass of one dispatch and, its fixed
\* flag taken away by a request in between, is being called in the mode pass
\* of the next, which also made a call in its own fixed pass
C32_Witness ==
    \E i \in 1 .. Len(sender_log), j \in 1 .. Len(sender_log) :
        /\ sender_log[i].id = sender_log[j].id
        /\ sender_log[i].pass = "fixed"
        /\ sender_log[j].pass # "fixed"
        /\ sender_log[i].req # sender_log[j].req
        /\ sender_log[j].answer = "pending"
        /\ \E k \in 1 .. Len(sender_log) :
              /\ sender_log[k].req = sender_log[j].req
              /\ sender_log[k].pass = "fixed"

-----------------------------------------------------------------------------
(* C33: an endpoint is changed only by a thread that holds the lock of its   *)
(* group: in a step taken while a dispatch holds the lock of a group, from   *)
(* the start of its fixed pass to the end of its mode pass, the endpoints'   *)
(* names, flags, schedule modes and windows stay as they are, and their      *)
(* counters change only by a step of the dispatch that holds the lock.       *)
C33_Step ==
    \A gid \in DOMAIN groups :
        (/\ groups[gid].lock # NoThread
         /\ gid \in DOMAIN groups'
         /\ groups'[gid].webhooks # groups[gid].webhooks) =>
            /\ AdminView(groups'[gid]) = AdminView(groups[gid])
            /\ threads'[groups[gid].lock] # threads[groups[gid].lock]

C33_MutationUnderLock == [][C33_Step]_vars

-----------------------------------------------------------------------------
\* the threads inside _save_config_sync that have rendered the dictionary
\* and have not returned from os.replace
SaveThreads ==
    {t \in DOMAIN threads :
        threads[t].pc \in {"save_open", "save_write", "save_replace"}}

(* C34: at most one execution of the write procedure is under way at any     *)
(* time, whether the timer, a forced save or a schedule replacement started  *)
(* it, so the temporary path never has two writers.                          *)
C34_OneWriter ==
    /\ Cardinality(SaveThreads) <= 1
    /\ \A t1 \in DOMAIN threads, t2 \in DOMAIN threads :
          (/\ t1 # t2
           /\ threads[t1].pc = "save_write"
           /\ threads[t2].pc = "save_write") =>
              threads[t1].fd # threads[t2].fd

-----------------------------------------------------------------------------
\* a dispatch to group gid is part-way through: inside `with self.lock` it
\* has counted the answer of one Sender call on an endpoint and waits for
\* the answer of another
PartWay(gid) ==
    \E t \in DOMAIN threads :
        /\ threads[t].gid = gid
        /\ threads[t].pc = "send"
        /\ groups[gid].lock = t
        /\ threads[t].results # <<>>

\* thread t renders the dictionary of _save_config_sync in this step
Renders(t) == threads[t].pc # "save_open" /\ threads'[t].pc = "save_open"

(* C35: the dictionary a save writes is rendered at a point where no         *)
(* dispatch to any of its groups is part-way through: no thread renders it   *)
(* while a dispatch holds the lock of a group between two of its changes of  *)
(* the endpoints' counters.                                                  *)
C35_Step ==
    \A t \in DOMAIN threads :
        Renders(t) => \A gid \in DOMAIN groups : ~PartWay(gid)

C35_RenderedAtRest == [][C35_Step]_vars

-----------------------------------------------------------------------------
(* The three locks, one acquisition per step: the lock of a group, the lock  *)
(* of the manager and the lock of the save timer.  The lock of a group is    *)
(* the field `lock` of the group; the other two are held by the thread that  *)
(* is at a position inside their `with` block.                               *)

\* the positions inside `with self.lock` of the manager
ManagerLockPcs == {"mgr_save_wait", "mgr_save", "mgr_unlock", "cred_locked",
                   "save_locked"}

\* the positions inside `with self._save_lock`
SaveLockPcs == {"edit_save", "mgr_save", "cred_sched"}

\* a lock that is held by no thread at one of the positions pcs
NotHeld(pcs) == \A t \in DOMAIN threads : threads[t].pc \notin pcs

\* a lock nobody ever leaves
LeaveTo_Never(pc) == pc

\* the position after the end of a `with` block
LeaveTo(pc) ==
    CASE pc = "edit_save" -> "edit_unlock"
      [] pc = "mgr_save" -> "mgr_unlock"
      [] pc = "cred_locked" -> "cred_save"
      [] pc = "save_locked" -> "save_file"
      [] OTHER -> "idle"

\* a request of the console arrives and runs on thread t up to the `with`
\* statement of its handler: toggle_webhook of a group, create_group and
\* delete_group and update_feishu_credentials of the manager
LockRequest(t, op, gid, id) ==
    /\ alive
    /\ FreeThread(t)
    /\ AdminOpen
    /\ threads' = [threads EXCEPT ![t] =
           [IdleThread EXCEPT
               !.pc = CASE op = "toggle" -> "edit_lock"
                        [] op = "credentials" -> "cred_lock"
                        [] OTHER -> "mgr_lock",
               !.gid = gid, !.target = id, !.arg = <<op>>]]
    /\ quota' = [quota EXCEPT !.admin = @ - 1]
    /\ UNCHANGED <<groups, now, sender_log, storeVars, timeVars, feishuVars>>

\* BossGroup.toggle_webhook from `with self.lock` to the call of
\* _trigger_save: an endpoint that is found is turned off; when none is
\* found the handler returns and the lock is left
EditLocked(t) ==
    LET th == threads[t]
        g == groups[th.gid]
        found == \E w \in Range(g.webhooks) : w.id = th.target
    IN
    /\ alive
    /\ th.pc = "edit_lock"
    /\ LockFree(g)
    /\ groups' = IF found
                 THEN [groups EXCEPT ![th.gid].lock = t,
                          ![th.gid].webhooks[IndexOf(g, th.target)].enabled =
                              FALSE]
                 ELSE groups
    /\ threads' = [threads EXCEPT ![t] =
           IF found THEN [th EXCEPT !.pc = "edit_save_wait"]
           ELSE [IdleThread EXCEPT
                    !.ret = [kind |-> "admin", success |-> FALSE]]]
    /\ UNCHANGED <<now, quota, sender_log, storeVars, timeVars, feishuVars>>

\* create_group and delete_group from `with self.lock` of the manager to
\* the call of _schedule_save; a group that exists is not created again, a
\* group that does not exist is not deleted, and the lock is left
ManagerLocked(t) ==
    LET th == threads[t]
        clean_id == CleanId(th.gid)
        creates == th.arg = <<"create">> /\ clean_id \notin DOMAIN groups
        deletes == th.arg = <<"delete">> /\ Lower(th.gid) \in DOMAIN groups
    IN
    /\ alive
    /\ th.pc = "mgr_lock"
    /\ NotHeld(ManagerLockPcs)
    /\ groups' =
          IF creates
          THEN [gid \in DOMAIN groups \cup {clean_id} |->
                   IF gid = clean_id
                   THEN [BossGroup(<<>>, MODE_SYNC, 0) EXCEPT
                            !.display_name = DisplayName(clean_id, "")]
                   ELSE groups[gid]]
          ELSE IF deletes
          THEN [gid \in DOMAIN groups \ {Lower(th.gid)} |-> groups[gid]]
          ELSE groups
    /\ threads' = [threads EXCEPT ![t] =
           IF creates \/ deletes THEN [th EXCEPT !.pc = "mgr_save_wait"]
           ELSE [IdleThread EXCEPT
                    !.ret = [kind |-> "admin", success |-> th.arg = <<"create">>]]]
    /\ UNCHANGED <<now, quota, sender_log, storeVars, timeVars, feishuVars>>

\* update_feishu_credentials: `with self.lock` and the two stores in it
CredLocked(t) ==
    /\ alive
    /\ threads[t].pc = "cred_lock"
    /\ NotHeld(ManagerLockPcs)
    /\ creds' = [app_id |-> Strip(" id1 "), app_secret |-> Strip("secret1")]
    /\ threads' = [threads EXCEPT ![t].pc = "cred_locked"]
    /\ UNCHANGED <<groups, now, quota, sender_log, save_timer, files, inodes,
                   alive, timeVars, feishuVars>>

\* _save_config_sync, run by the timer: `with self.lock` of the manager and
\* the rendering of the groups; how long the timer waits plays no part in
\* the locks, and it fires at any time after its start
SaveLocked(t) ==
    LET th == threads[t]
        snap == Snapshot(creds, groups, now)
    IN
    /\ alive
    /\ th.pc = "timer_wait"
    /\ NotHeld(ManagerLockPcs)
    /\ threads' = [threads EXCEPT ![t] =
           [IdleThread EXCEPT !.pc = "save_locked", !.snap = <<snap>>]]
    /\ store_log' = Append(store_log, TimerWrite(snap))
    /\ UNCHANGED <<groups, now, quota, sender_log, storeVars, clock,
                   feishuVars>>

\* _schedule_save: `with self._save_lock`
SaveTimerLock(t) ==
    LET th == threads[t] IN
    /\ alive
    /\ th.pc \in {"edit_save_wait", "mgr_save_wait", "cred_save"}
    /\ NotHeld(SaveLockPcs)
    /\ threads' = [threads EXCEPT ![t].pc =
           CASE th.pc = "edit_save_wait" -> "edit_save"
             [] th.pc = "mgr_save_wait" -> "mgr_save"
             [] OTHER -> "cred_sched"]
    /\ UNCHANGED <<groups, now, quota, sender_log, storeVars, timeVars,
                   feishuVars>>

\* _schedule_save inside `with self._save_lock`: the timer is cancelled, a
\* new one is started, and the block is left
ScheduleLocked(t) ==
    LET th == threads[t]
        r == _schedule_save(threads, save_timer, t)
    IN
    /\ alive
    /\ th.pc \in SaveLockPcs
    /\ CanScheduleSave(threads, save_timer, t)
    /\ threads' = [r.threads EXCEPT ![t] =
           IF LeaveTo(th.pc) = "idle"
           THEN [IdleThread EXCEPT
                    !.ret = [kind |-> "credentials", success |-> TRUE]]
           ELSE [th EXCEPT !.pc = LeaveTo(th.pc)]]
    /\ save_timer' = r.save_timer
    /\ store_log' = r.store_log
    /\ UNCHANGED <<groups, now, quota, sender_log, creds, files, inodes,
                   alive, clock, feishuVars>>

\* _save_config_sync after the `with` block: the temporary file is opened,
\* written and closed and takes the place of the durable file, which is
\* gone; the steps, which take no lock, are taken as one
SaveFile(t) ==
    LET th == threads[t] IN
    /\ alive
    /\ th.pc = "save_file"
    /\ inodes' = <<WholeFile(th.snap[1])>>
    /\ files' = [durable |-> 1, tmp |-> 0]
    /\ threads' = [threads EXCEPT ![t] =
           [IdleThread EXCEPT !.ret = [kind |-> "save", success |-> TRUE]]]
    /\ UNCHANGED <<groups, now, quota, sender_log, creds, save_timer, alive,
                   timeVars, feishuVars>>

\* the end of `with self.lock` of a group or of the manager; after the block
\* update_feishu_credentials stores the credentials in the globals and in
\* the uploader and empties the token cache, which takes no lock and is
\* taken as one step with the end of the block
LeaveLock(t) ==
    LET th == threads[t] IN
    /\ alive
    /\ th.pc \in {"edit_unlock", "mgr_unlock", "cred_locked", "save_locked"}
    /\ groups' = IF th.pc = "edit_unlock"
                 THEN [groups EXCEPT ![th.gid] = Unlocked(@)]
                 ELSE groups
    /\ feishu' = IF th.pc = "cred_locked"
                 THEN [feishu EXCEPT
                          !.FEISHU_APP_ID = creds.app_id,
                          !.FEISHU_APP_SECRET = creds.app_secret,
                          !.app_id = creds.app_id,
                          !.app_secret = creds.app_secret,
                          !.token_cache = [token |-> NoToken,
                                           expire_time |-> 0]]
                 ELSE feishu
    /\ threads' = [threads EXCEPT ![t] =
           IF th.pc \in {"edit_unlock", "mgr_unlock"}
           THEN [IdleThread EXCEPT
                    !.ret = [kind |-> "admin", success |-> TRUE]]
           ELSE [th EXCEPT !.pc = LeaveTo(th.pc)]]
    /\ UNCHANGED <<now, quota, sender_log, storeVars, timeVars, net_log>>

\* a message to group a, the requests of the console, and the steps of the
\* threads they run on
NextLocks ==
    \/ \E t \in DOMAIN threads : FreeThread(t) /\ RelayStart(t, "a", "text", FALSE)
    \/ \E t \in DOMAIN threads : RecvWrite(t)
    \/ \E t \in DOMAIN threads : AcquireLock(t)
    \/ \E t \in DOMAIN threads : SyncNext(t)
    \/ \E t \in DOMAIN threads : SendReturn(t, TRUE)
    \/ \E t \in DOMAIN threads : SyncEntry(t)
    \/ \E t \in DOMAIN threads : ReleaseLock(t)
    \/ \E t \in DOMAIN threads : SentRead(t)
    \/ \E t \in DOMAIN threads : SentWrite(t)
    \/ \E t \in DOMAIN threads : FailedRead(t)
    \/ \E t \in DOMAIN threads : FailedWrite(t)
    \/ \E t \in DOMAIN threads : LockRequest(t, "toggle", "a", WebhookIds[1])
    \/ \E t \in DOMAIN threads, op \in {"create", "delete"} :
          LockRequest(t, op, "C", NoWebhook)
    \/ \E t \in DOMAIN threads :
          LockRequest(t, "credentials", NoGroup, NoWebhook)
    \/ \E t \in DOMAIN threads : EditLocked(t)
    \/ \E t \in DOMAIN threads : ManagerLocked(t)
    \/ \E t \in DOMAIN threads : CredLocked(t)
    \/ \E t \in DOMAIN threads : SaveLocked(t)
    \/ \E t \in DOMAIN threads : SaveTimerLock(t)
    \/ \E t \in DOMAIN threads : ScheduleLocked(t)
    \/ \E t \in DOMAIN threads : LeaveLock(t)
    \/ \E t \in DOMAIN threads : SaveFile(t)

\* the steps a thread takes once its handler or its timer has started; the
\* Sender answers every call
Proceed(t) ==
    \/ RecvWrite(t) \/ AcquireLock(t) \/ SyncNext(t)
    \/ SendReturn(t, TRUE) \/ SyncEntry(t) \/ ReleaseLock(t)
    \/ SentRead(t) \/ SentWrite(t) \/ FailedRead(t) \/ FailedWrite(t)
    \/ EditLocked(t) \/ ManagerLocked(t) \/ CredLocked(t)
    \/ SaveLocked(t) \/ SaveTimerLock(t) \/ ScheduleLocked(t) \/ LeaveLock(t)
    \/ SaveFile(t)

\* the threads of the lock specification: one for each request and one for
\* each timer they may start
LockThreads == 1 .. 5

\* group a in sync mode with one endpoint; the console creates and deletes
\* group c; one message and two requests
InitLocks ==
    /\ groups = [gid \in {"a"} |->
                    BossGroup(SubSeq(SampleWebhooks(AllFlags, NoFlags,
                                                    NoFlags), 1, 1),
                              MODE_SYNC, 0)]
    /\ threads = [t \in LockThreads |-> IdleThread]
    /\ now = [date |-> 0, time |-> 0]
    /\ sender_log = <<>>
    /\ quota = Quota(1, 0, 0, 2)
    /\ InitStore

\* every thread that can take a step goes on
SpecLocks ==
    /\ InitLocks
    /\ [][NextLocks]_vars
    /\ \A t \in LockThreads : WF_vars(Proceed(t))

\* thread t waits for a lock that thread u holds
Waits(t, u) ==
    /\ t # u
    /\ \/ /\ threads[t].pc \in {"lock_wait", "edit_lock"}
          /\ threads[t].gid \in DOMAIN groups
          /\ groups[threads[t].gid].lock = u
       \/ /\ threads[t].pc \in {"mgr_lock", "cred_lock"}
          /\ threads[u].pc \in ManagerLockPcs
       \/ /\ threads[t].pc \in {"edit_save_wait", "mgr_save_wait", "cred_save"}
          /\ threads[u].pc \in SaveLockPcs

\* no threads wait for each other in a circle; each of the three locks has
\* one holder, so a circle has two or three threads
NoWaitCycle ==
    \A t \in DOMAIN threads, u \in DOMAIN threads :
        Waits(t, u) =>
            /\ ~Waits(u, t)
            /\ \A v \in DOMAIN threads : ~(Waits(u, v) /\ Waits(v, t))

\* thread t runs no handler: it is free, or it is a timer that has not fired
AtRest(t) == threads[t].pc \in {"idle", "timer_wait"}

(* C36: no interleaving of dispatches, endpoint operations, group creation   *)
(* and deletion, credential updates and saves deadlocks: no threads ever     *)
(* wait for each other's locks in a circle, and, the Sender answering every  *)
(* call, every handler that has started returns.                             *)
C36_NoDeadlock ==
    /\ []NoWaitCycle
    /\ <>[](\A t \in LockThreads : AtRest(t))

\* a dispatch waits for the lock of its group, held by an endpoint operation
\* that waits for the lock of the save timer, held by a group creation or
\* deletion that holds the lock of the manager
C36_Witness ==
    \E t \in DOMAIN threads, u \in DOMAIN threads, v \in DOMAIN threads :
        /\ threads[t].pc = "lock_wait"
        /\ Waits(t, u)
        /\ Waits(u, v)
        /\ threads[v].pc = "mgr_save"

-----------------------------------------------------------------------------
(* C38: when the load of the durable file fails at any point, also after     *)
(* the credentials or some groups have been read from it, the process comes  *)
(* up with exactly the compiled-in configuration: its groups are the         *)
(* compiled-in groups, its credentials the default ones, and nothing read    *)
(* from the file is left.                                                    *)
C38_StartStep ==
    (~alive /\ alive') =>
       LET exists == files.durable # 0
           content == IF exists THEN inodes[files.durable] ELSE EmptyFile
       IN ~_load_config(exists, content, now).loaded =>
             /\ DOMAIN groups' = DOMAIN PRESET_WEBHOOKS
             /\ groups' = SeedGroups(now)
             /\ creds' = DefaultCredentials

C38_FailedLoadLeavesSeed == [][C38_StartStep]_vars

-----------------------------------------------------------------------------
(* The relay of v2.0 (src/webhookrelaycloud.py): one list of webhooks, one   *)
(* cursor.  The one WebhookRelay object the module creates is kept in the    *)
(* table `groups` under the key RelayKey; the handlers run on `threads`.     *)

RelayKey == "relay"

\* deque(maxlen=100)
RelayHistoryMaxLen == 100

\* WebhookRelay.__init__ and _load_from_env: the webhooks of the environment
\* that start with https://, the cursor at 0, the counters at 0
WebhookRelay(urls) ==
    [webhooks |-> SelectSeq(urls, StartsWithHttps),
     current_index |-> 0,
     stats |-> [total_received |-> 0, total_sent |-> 0, failed_count |-> 0,
                webhook_stats |->
                   [u \in {v \in Range(urls) : StartsWithHttps(v)} |->
                       [sent |-> 0, failed |-> 0]],
                source_stats |-> 0],
     history |-> <<>>]

\* the object `relay`
relay == groups[RelayKey]

\* a remove_webhook that leaves the cursor where it is
RemoveCursor_Keeps(current_index, rest) == current_index

\* remove_webhook: the cursor goes back to 0 when it is past the end of the
\* list that is left and the list is not empty
RemoveCursor(current_index, rest) ==
    IF current_index >= Len(rest) /\ Len(rest) > 0 THEN 0 ELSE current_index

\* WebhookRelay.add_webhook, inside `with self.lock`: a url that is empty,
\* does not start with https:// or is in the list is refused
Relay_add_webhook(t, url) ==
    LET ok == url # "" /\ StartsWithHttps(url)
              /\ url \notin Range(relay.webhooks)
    IN
    /\ FreeThread(t)
    /\ quota.admin > 0
    /\ groups' = IF ok
                 THEN [groups EXCEPT
                         ![RelayKey].webhooks = Append(@, url),
                         ![RelayKey].stats.webhook_stats =
                            [u \in DOMAIN @ \cup {url} |->
                                IF u = url THEN [sent |-> 0, failed |-> 0]
                                ELSE @[u]]]
                 ELSE groups
    /\ threads' = [threads EXCEPT ![t] =
           [IdleThread EXCEPT !.ret = [kind |-> "admin", success |-> ok]]]
    /\ quota' = [quota EXCEPT !.admin = @ - 1]
    /\ UNCHANGED <<now, sender_log, storeVars, timeVars, feishuVars>>

\* WebhookRelay.remove_webhook, inside `with self.lock`; index counts from 0
Relay_remove_webhook(t, index) ==
    LET ok == 0 <= index /\ index < Len(relay.webhooks)
        rest == Pop(relay.webhooks, index + 1)
    IN
    /\ FreeThread(t)
    /\ quota.admin > 0
    /\ groups' = IF ok
                 THEN [groups EXCEPT
                         ![RelayKey].webhooks = rest,
                         ![RelayKey].current_index = RemoveCursor(@, rest)]
                 ELSE groups
    /\ threads' = [threads EXCEPT ![t] =
           [IdleThread EXCEPT !.ret = [kind |-> "admin", success |-> ok]]]
    /\ quota' = [quota EXCEPT !.admin = @ - 1]
    /\ UNCHANGED <<now, sender_log, storeVars, timeVars, feishuVars>>

\* WebhookRelay.get_next_webhook, inside `with self.lock`: the webhook under
\* the cursor and its index, and the cursor after it; (None, -1) for the
\* empty list.  A cursor past the end of the list raises IndexError
get_next_webhook(r) ==
    IF r.webhooks = <<>>
    THEN [webhook |-> NoWebhook, index |-> 0 - 1,
          current_index |-> r.current_index, raised |-> FALSE]
    ELSE IF r.current_index >= Len(r.webhooks)
    THEN [webhook |-> NoWebhook, index |-> r.current_index,
          current_index |-> r.current_index, raised |-> TRUE]
    ELSE [webhook |-> r.webhooks[r.current_index + 1],
          index |-> r.current_index,
          current_index |-> (r.current_index + 1) % Len(r.webhooks),
          raised |-> FALSE]

\* relay_message: the load of stats["total_received"] += 1
Relay_relay_message(t) ==
    /\ FreeThread(t)
    /\ quota.dispatch > 0
    /\ threads' = [threads EXCEPT ![t] =
           [IdleThread EXCEPT !.pc = "v2_recv_write", !.gid = RelayKey,
               !.req = RequestNo(quota), !.tmp = relay.stats.total_received]]
    /\ quota' = [quota EXCEPT !.dispatch = @ - 1, !.started = @ + 1]
    /\ UNCHANGED <<groups, now, sender_log, storeVars, timeVars, feishuVars>>

\* the store of stats["total_received"] and the count of the source
Relay_RecvWrite(t) ==
    LET th == threads[t] IN
    /\ th.pc = "v2_recv_write"
    /\ groups' = [groups EXCEPT
           ![RelayKey].stats.total_received = th.tmp + 1,
           ![RelayKey].stats.source_stats = @ + 1]
    /\ threads' = [threads EXCEPT ![t].pc = "v2_next", ![t].tmp = 0]
    /\ UNCHANGED <<now, quota, sender_log, storeVars, timeVars, feishuVars>>

\* webhook_url, index = self.get_next_webhook(); with no webhook the call
\* is a failure, otherwise requests.post is called
Relay_Next(t) ==
    LET th == threads[t]
        r == get_next_webhook(relay)
        th1 == [th EXCEPT !.webhook = r.webhook, !.cur0 = r.index,
                          !.pass = "v2"]
    IN
    /\ th.pc = "v2_next"
    /\ groups' = [groups EXCEPT ![RelayKey].current_index = r.current_index]
    /\ IF r.raised
       THEN /\ threads' = [threads EXCEPT ![t] =
                  [IdleThread EXCEPT !.req = th.req,
                      !.ret = [kind |-> "raised", success |-> FALSE]]]
            /\ UNCHANGED sender_log
       ELSE IF r.webhook = NoWebhook
       THEN /\ threads' = [threads EXCEPT ![t] =
                  [th1 EXCEPT !.pc = "v2_failed_read", !.arg = <<"none">>]]
            /\ UNCHANGED sender_log
       ELSE /\ threads' = [threads EXCEPT ![t] = [th1 EXCEPT !.pc = "v2_send"]]
            /\ sender_log' = Append(sender_log, SenderCall(th1, r.webhook))
    /\ UNCHANGED <<now, quota, storeVars, timeVars, feishuVars>>

\* requests.post returns 200 or 204, returns another status, or raises
Relay_SendReturn(t, answer) ==
    LET th == threads[t] IN
    /\ th.pc = "v2_send"
    /\ answer # "ok" => quota.fail > 0
    /\ sender_log' = Answered(sender_log, th.req, answer = "ok")
    /\ threads' = [threads EXCEPT
           ![t].pc = IF answer = "ok" THEN "v2_sent_read" ELSE "v2_failed_read",
           ![t].arg = <<answer>>]
    /\ quota' = [quota EXCEPT !.fail = IF answer = "ok" THEN @ ELSE @ - 1]
    /\ UNCHANGED <<groups, now, storeVars, timeVars, feishuVars>>

\* the load of stats["total_sent"] += 1 or of stats["failed_count"] += 1
Relay_CountRead(t) ==
    LET th == threads[t] IN
    /\ th.pc \in {"v2_sent_read", "v2_failed_read"}
    /\ threads' = [threads EXCEPT
           ![t].pc = IF th.pc = "v2_sent_read" THEN "v2_sent_write"
                     ELSE "v2_failed_write",
           ![t].tmp = IF th.pc = "v2_sent_read" THEN relay.stats.total_sent
                      ELSE relay.stats.failed_count]
    /\ UNCHANGED <<groups, now, quota, sender_log, storeVars, timeVars,
                   feishuVars>>

\* the store of the counter, the count of the webhook, the entry of the
\* history, and the return; a call that found no webhook returns after the
\* store
Relay_CountWrite(t) ==
    LET th == threads[t]
        sent == th.pc = "v2_sent_write"
        url == th.webhook
        entry == [webhook_index |-> th.cur0 + 1, status |-> th.arg[1]]
    IN
    /\ th.pc \in {"v2_sent_write", "v2_failed_write"}
    /\ groups' = [groups EXCEPT ![RelayKey] =
           [@ EXCEPT
              !.stats.total_sent = IF sent THEN th.tmp + 1 ELSE @,
              !.stats.failed_count = IF sent THEN @ ELSE th.tmp + 1,
              !.stats.webhook_stats =
                  IF url = NoWebhook THEN @
                  ELSE [@ EXCEPT ![url] =
                          IF sent THEN [@ EXCEPT !.sent = @ + 1]
                          ELSE [@ EXCEPT !.failed = @ + 1]],
              !.history = IF url = NoWebhook THEN @
                          ELSE IF Len(@) >= RelayHistoryMaxLen
                          THEN <<entry>> \o SubSeq(@, 1, RelayHistoryMaxLen - 1)
                          ELSE <<entry>> \o @]]
    /\ threads' = [threads EXCEPT ![t] =
           [IdleThread EXCEPT !.req = th.req, !.webhook = url,
               !.cur0 = th.cur0,
               !.ret = [kind |-> "relay", success |-> sent]]]
    /\ UNCHANGED <<now, quota, sender_log, storeVars, timeVars, feishuVars>>

\* the urls the console may send
RelayUrls == {"", "http", WebhookIds[1], WebhookIds[2]}

\* the messages, the requests of the console and the steps of the callers
NextRelay ==
    \/ \E t \in DOMAIN threads : Relay_relay_message(t)
    \/ \E t \in DOMAIN threads : Relay_RecvWrite(t)
    \/ \E t \in DOMAIN threads : Relay_Next(t)
    \/ \E t \in DOMAIN threads, answer \in {"ok", "http", "raise"} :
          Relay_SendReturn(t, answer)
    \/ \E t \in DOMAIN threads : Relay_CountRead(t)
    \/ \E t \in DOMAIN threads : Relay_CountWrite(t)
    \/ \E t \in DOMAIN threads, url \in RelayUrls : Relay_add_webhook(t, url)
    \/ \E t \in DOMAIN threads, index \in 0 .. 2 : Relay_remove_webhook(t, index)

\* the relay as the module creates it, with no webhook in the environment,
\* or one, or two; the server runs every request on a thread of its own;
\* three messages, one failing call and two requests of the console
InitRelay ==
    /\ \E n \in 0 .. 2 :
          groups = [k \in {RelayKey} |->
                       WebhookRelay(SubSeq(WebhookIds, 1, n))]
    /\ threads = [t \in 1 .. 2 |-> IdleThread]
    /\ now = [date |-> 0, time |-> 0]
    /\ sender_log = <<>>
    /\ quota = Quota(3, 0, 1, 2)
    /\ creds = DefaultCredentials
    /\ save_timer = NoThread
    /\ files = [durable |-> 0, tmp |-> 0]
    /\ inodes = <<>>
    /\ alive = TRUE
    /\ clock = 0
    /\ store_log = <<>>
    /\ feishu = FeishuImageUploader
    /\ net_log = <<>>

SpecRelay == InitRelay /\ [][NextRelay]_vars

-----------------------------------------------------------------------------
(* C39: in the relay of v2.0, whatever webhooks are added and removed and    *)
(* whatever messages are relayed, the cursor is 0 while the list is empty    *)
(* and otherwise at least 0 and less than the number of webhooks, and        *)
(* get_next_webhook never reads past the end of the list.                    *)
C39_CursorInList ==
    /\ relay.webhooks = <<>> => relay.current_index = 0
    /\ relay.webhooks # <<>> =>
          /\ 0 <= relay.current_index
          /\ relay.current_index < Len(relay.webhooks)
    /\ \A t \in DOMAIN threads : threads[t].ret.kind # "raised"
    /\ \A c \in Range(sender_log) : c.cur0 >= 0

\* of two webhooks the first has been called once, which left the cursor on
\* the second; one of the two has been removed since, and the cursor is on
\* the one that is left
C39_Witness ==
    /\ Len(relay.webhooks) = 1
    /\ relay.current_index = 0
    /\ DOMAIN relay.stats.webhook_stats = {WebhookIds[1], WebhookIds[2]}
    /\ quota.admin = 1
    /\ Len(sender_log) = 1
    /\ sender_log[1].answer = "ok"
    /\ \A t \in DOMAIN threads : threads[t].pc = "idle"

-----------------------------------------------------------------------------
(* C40: in the relay of v2.0 every call of relay_message adds one to         *)
(* total_received and one to exactly one of total_sent and failed_count (no  *)
(* webhook, another status and an exception all count as failed), so when    *)
(* every call has returned, however the callers have interleaved,            *)
(* total_received = total_sent + failed_count.                               *)
C40_Conservation ==
    (\A t \in DOMAIN threads : threads[t].pc = "idle") =>
        relay.stats.total_received =
            relay.stats.total_sent + relay.stats.failed_count

-----------------------------------------------------------------------------
\* the sum of a counter over the webhooks ws
RECURSIVE CounterSum(_, _)
CounterSum(ws, name) ==
    IF ws = <<>> THEN 0
    ELSE ws[1].stats[name] + CounterSum(Tail(ws), name)

\* the calls of the Sender to webhook id of group gid that got the answer
CallsAnswered(gid, id, answer) ==
    Len(SelectSeq(sender_log,
                  LAMBDA c : c.gid = gid /\ c.id = id /\ c.answer = answer))

(* C37: every call of the Sender a dispatch makes adds one to the sent or    *)
(* to the failed counter of the endpoint it went to and to nothing else,     *)
(* and is counted once in the group's totals: with the counters starting at  *)
(* 0 and the dispatches coming one after the other, each endpoint's sent     *)
(* and failed counters are the numbers of its calls that succeeded and that  *)
(* failed, and whenever no dispatch is under way the group's total_sent and  *)
(* total_failed are the sums of its endpoints' sent and failed counters.     *)
C37_CounterConservation ==
    \A gid \in DOMAIN groups :
        LET g == groups[gid] IN
        /\ \A w \in Range(g.webhooks) :
              /\ w.stats.sent = CallsAnswered(gid, w.id, "ok")
              /\ w.stats.failed = CallsAnswered(gid, w.id, "fail")
        /\ (\A t \in DOMAIN threads : threads[t].pc = "idle") =>
              /\ g.stats.total_sent = CounterSum(g.webhooks, "sent")
              /\ g.stats.total_failed = CounterSum(g.webhooks, "failed")

\* no dispatch is under way; the group has delivered to two endpoints, one
\* of them more than once, and one call has failed
C37_Witness ==
    /\ \A t \in DOMAIN threads : threads[t].pc = "idle"
    /\ groups["a"].stats.total_failed = 1
    /\ groups["a"].stats.total_sent >= 3
    /\ \E w \in Range(groups["a"].webhooks) : w.stats.sent >= 2
    /\ \E w \in Range(groups["a"].webhooks) :
          w.stats.failed = 1 /\ w.stats.sent >= 1

=============================================================================
